---- MODULE Spec2Model ----
(***************************************************************************)
(* A model of rusp, a small statically typed Lisp: the parser              *)
(* (src/src/parser), the type checker (src/src/types.rs), the evaluator    *)
(* (src/src/eval.rs), the value environment with its built-ins             *)
(* (src/src/env.rs) and the REPL driver (src/src/main.rs).                 *)
(*                                                                         *)
(* Representation.                                                         *)
(*   - Source text is a TLA+ string; a parser takes the text and a         *)
(*     position (the start of nom's remaining input) and returns a record  *)
(*     with the new position.                                              *)
(*   - Option<T> is a sequence of length 0 (None) or 1 (Some).             *)
(*   - A HashMap is a function whose domain is the set of its keys.        *)
(*   - Enum variants are records with a "tag" field named as in the source.*)
(*   - i32 and i64 payloads are exact integers in sign-magnitude decimal   *)
(*     form (Big), since the model checker's own integers are 32 bits wide.*)
(*   - f64 payloads are binary64 values: sign, mantissa and binary         *)
(*     exponent, or an infinity, or NaN.                                   *)
(***************************************************************************)
EXTENDS Integers, Sequences, FiniteSets, TLC

VARIABLES
    pc,              \* position of the driver: main's loop and process_input
    input,           \* the trimmed line being processed (main.rs:27)
    ast,             \* Option<Expr>: the tree the current input produced
    ty,              \* Option<Type>: the type the checker returned
    result,          \* outcome of the current input, as main reports it
    env,             \* the root value environment (main.rs:17)
    type_env,        \* the root type environment  (main.rs:18)
    out,             \* what print/println wrote during the current input
    n,               \* number of inputs read so far
    overflow_checks  \* build profile: TRUE = debug (checked arithmetic)

vars == <<pc, input, ast, ty, result, env, type_env, out, n, overflow_checks>>

(***************************************************************************)
(* Bounds of the model.                                                    *)
(***************************************************************************)
MaxInputs == 3      \* inputs read per session
MaxDepth == 12      \* nested user-function calls an evaluation of the model follows
MaxScopes == 2      \* frames an environment is extended by when its operations run alone

(***************************************************************************)
(* Generic helpers: Option, HashMap.                                       *)
(***************************************************************************)
None == <<>>
Some(x) == <<x>>
IsSome(o) == o # <<>>

EmptyMap == [k \in {} |-> TRUE]
MapInsert(m, k, v) == [x \in (DOMAIN m) \cup {k} |-> IF x = k THEN v ELSE m[x]]

\* A value is named for the rest of a computation.
With(v, F(_)) == F(v)

(***************************************************************************)
(* Exact integers.  Big == [neg, mag]: mag is the sequence of decimal      *)
(* digits, most significant first, without leading zeros; zero is the      *)
(* empty magnitude with neg = FALSE.                                       *)
(***************************************************************************)
\* The digits without their leading zeros.
Strip(d) ==
    IF \A i \in 1..Len(d) : d[i] = 0 THEN <<>>
    ELSE SubSeq(d, CHOOSE i \in 1..Len(d) :
                      d[i] # 0 /\ \A j \in 1..(i - 1) : d[j] = 0,
                Len(d))

RECURSIVE NatDigits(_)
NatDigits(k) == IF k = 0 THEN <<>> ELSE Append(NatDigits(k \div 10), k % 10)

\* The Big of a small integer of the model checker.
I(k) == IF k < 0 THEN [neg |-> TRUE, mag |-> NatDigits(-k)]
                 ELSE [neg |-> FALSE, mag |-> NatDigits(k)]

MkBig(neg, mag) ==
    LET m == Strip(mag) IN [neg |-> neg /\ m # <<>>, mag |-> m]

\* -1, 0, 1 as a < b, a = b, a > b, for equally long digit sequences: the
\* first position where they differ decides.
MagCmpSame(a, b) ==
    IF a = b THEN 0
    ELSE LET i == CHOOSE k \in 1..Len(a) :
                      a[k] # b[k] /\ \A j \in 1..(k - 1) : a[j] = b[j]
         IN IF a[i] < b[i] THEN -1 ELSE 1

\* -1, 0, 1 as a < b, a = b, a > b (canonical magnitudes).
MagCmp(a, b) ==
    IF Len(a) < Len(b) THEN -1
    ELSE IF Len(a) > Len(b) THEN 1
    ELSE MagCmpSame(a, b)

\* k zeros
Zeros(k) == [i \in 1..k |-> 0]
\* d with zeros in front up to the length len
PadTo(d, len) == Zeros(len - Len(d)) \o d

\* The carry into position i of the digit-wise sum of a and b: a position to
\* the right produces one and every position in between passes it on.
CarryInto(a, b, i) ==
    \E j \in (i + 1)..Len(a) :
        /\ a[j] + b[j] >= 10
        /\ \A k \in (i + 1)..(j - 1) : a[k] + b[k] = 9

\* Digit-wise sum of two equally long digit sequences.
AddSame(a, b) ==
    (IF CarryInto(a, b, 0) THEN <<1>> ELSE <<>>)
    \o [i \in 1..Len(a) |->
          (a[i] + b[i] + (IF CarryInto(a, b, i) THEN 1 ELSE 0)) % 10]

MagAdd(a, b) ==
    IF a = <<>> THEN Strip(b)
    ELSE IF b = <<>> THEN Strip(a)
    ELSE LET len == IF Len(a) >= Len(b) THEN Len(a) ELSE Len(b)
         IN Strip(AddSame(PadTo(a, len), PadTo(b, len)))

\* The borrow from position i of the digit-wise difference a - b.
BorrowFrom(a, b, i) ==
    \E j \in (i + 1)..Len(a) :
        /\ a[j] < b[j]
        /\ \A k \in (i + 1)..(j - 1) : a[k] = b[k]

\* Digit-wise difference of two equally long digit sequences, a >= b.
SubSame(a, b) ==
    [i \in 1..Len(a) |->
        (a[i] - b[i] - (IF BorrowFrom(a, b, i) THEN 1 ELSE 0) + 10) % 10]

\* a - b for a >= b.
MagSub(a, b) == Strip(SubSame(a, PadTo(b, Len(a))))

\* a times the digit d: the units of the digit products plus their tens.
MagMulDigit(a, d) ==
    MagAdd([i \in 1..Len(a) |-> (a[i] * d) % 10],
           [i \in 1..Len(a) |-> (a[i] * d) \div 10] \o <<0>>)

\* Schoolbook product: a times the digits lo..hi of b at their places.
RECURSIVE MulRange(_, _, _, _)
MulRange(a, b, lo, hi) ==
    IF lo > hi THEN <<>>
    ELSE IF lo = hi THEN Strip(MagMulDigit(a, b[lo]) \o Zeros(Len(b) - lo))
    ELSE MagAdd(MulRange(a, b, lo, (lo + hi) \div 2),
                MulRange(a, b, (lo + hi) \div 2 + 1, hi))

MagMul(a, b) == IF a = <<>> \/ b = <<>> THEN <<>> ELSE MulRange(a, b, 1, Len(b))

\* The largest digit q with q * b <= r, for r < 10 * b, and what is left of r.
QuotDigit(r, b) ==
    LET q == CHOOSE d \in 0..9 :
                 /\ MagCmp(MagMulDigit(b, d), r) <= 0
                 /\ d = 9 \/ MagCmp(MagMulDigit(b, d + 1), r) > 0
    IN [q |-> q, r |-> MagSub(r, MagMulDigit(b, q))]

\* Long division of the digits lo..hi of a by b # 0, r0 being the remainder
\* that comes in from the digits before lo: the quotient digits of these
\* positions and the remainder that goes out.
RECURSIVE DivRange(_, _, _, _, _)
DivRange(a, b, lo, hi, r0) ==
    IF lo > hi THEN [q |-> <<>>, r |-> r0]
    ELSE IF lo = hi THEN
        LET step == QuotDigit(Strip(Append(r0, a[lo])), b)
        IN [q |-> <<step.q>>, r |-> step.r]
    ELSE LET left == DivRange(a, b, lo, (lo + hi) \div 2, r0)
             right == DivRange(a, b, (lo + hi) \div 2 + 1, hi, left.r)
         IN [q |-> left.q \o right.q, r |-> right.r]

\* Quotient and remainder of a by b # 0.
MagDivMod(a, b) ==
    LET d == DivRange(a, b, 1, Len(a), <<>>)
    IN [q |-> Strip(d.q), r |-> d.r]

BigNeg(a) == MkBig(~a.neg, a.mag)

BigAdd(a, b) ==
    IF a.neg = b.neg THEN MkBig(a.neg, MagAdd(a.mag, b.mag))
    ELSE IF MagCmp(a.mag, b.mag) >= 0 THEN MkBig(a.neg, MagSub(a.mag, b.mag))
    ELSE MkBig(b.neg, MagSub(b.mag, a.mag))

BigSub(a, b) == BigAdd(a, BigNeg(b))

BigMul(a, b) == MkBig(a.neg # b.neg, MagMul(a.mag, b.mag))

\* Quotient rounded toward zero, as the integer division of the machine.
BigDiv(a, b) == MkBig(a.neg # b.neg, MagDivMod(a.mag, b.mag).q)

\* Remainder of the division rounding toward negative infinity (0 <= r < b), b > 0.
BigFloorMod(a, b) ==
    LET r == MagDivMod(a.mag, b.mag).r
    IN IF a.neg /\ r # <<>> THEN MkBig(FALSE, MagSub(b.mag, r)) ELSE MkBig(FALSE, r)

BigCmp(a, b) ==
    IF a.neg /\ ~b.neg THEN -1
    ELSE IF ~a.neg /\ b.neg THEN 1
    ELSE IF a.neg THEN MagCmp(b.mag, a.mag)
    ELSE MagCmp(a.mag, b.mag)

BigIsZero(a) == a.mag = <<>>

\* 2^31, 2^32, 2^63, 2^64.
Pow2_31 == [neg |-> FALSE, mag |-> <<2,1,4,7,4,8,3,6,4,8>>]
Pow2_32 == [neg |-> FALSE, mag |-> <<4,2,9,4,9,6,7,2,9,6>>]
Pow2_63 == [neg |-> FALSE, mag |-> <<9,2,2,3,3,7,2,0,3,6,8,5,4,7,7,5,8,0,8>>]
Pow2_64 == [neg |-> FALSE, mag |-> <<1,8,4,4,6,7,4,4,0,7,3,7,0,9,5,5,1,6,1,6>>]

\* w is 32 or 64.
HalfRange(w) == IF w = 32 THEN Pow2_31 ELSE Pow2_63
FullRange(w) == IF w = 32 THEN Pow2_32 ELSE Pow2_64

\* -2^(w-1) <= a <= 2^(w-1) - 1
InRange(a, w) ==
    /\ BigCmp(a, BigNeg(HalfRange(w))) >= 0
    /\ BigCmp(a, HalfRange(w)) < 0

\* The two's complement value of the low w bits of a.
Wrap(a, w) ==
    BigSub(BigFloorMod(BigAdd(a, HalfRange(w)), FullRange(w)), HalfRange(w))

(***************************************************************************)
(* f64: IEEE 754 binary64, rounding to nearest, ties to even.  A finite    *)
(* value is m * 2^e with the sign apart: m (a magnitude) is below 2^53,    *)
(* e lies in -1074..971, and m >= 2^52 unless e = -1074 (subnormals and    *)
(* zero).                                                                  *)
(***************************************************************************)
MagSquare(a) == MagMul(a, a)

\* h^2, times b when odd.
MagPowStep(h, b, odd) ==
    IF h = <<>> THEN <<>>
    ELSE MagMul(MagSquare(h), IF odd THEN <<b>> ELSE <<1>>)

\* b^k for a digit b > 0 and k >= 0, by squaring.
RECURSIVE MagPow(_, _)
MagPow(b, k) ==
    IF k = 0 THEN <<1>>
    ELSE MagPowStep(MagPow(b, k \div 2), b, k % 2 = 1)

\* m * 2^k for k > 0, and m for the other k.
ScaleBy(m, k) == IF k <= 0 THEN m ELSE MagMul(m, MagPow(2, k))

\* 2^52 and 2^53.
F64MantMin == <<4,5,0,3,5,9,9,6,2,7,3,7,0,4,9,6>>
F64MantEnd == <<9,0,0,7,1,9,9,2,5,4,7,4,0,9,9,2>>
\* The exponents of the least subnormal and of f64::MAX.
F64MinExp == -1074
F64MaxExp == 971

F64Finite(neg, m, e) == [kind |-> "finite", neg |-> neg, m |-> m, e |-> e]
F64Zero(neg) == F64Finite(neg, <<>>, F64MinExp)
\* f64::INFINITY, f64::NEG_INFINITY, f64::NAN
F64Infinity(neg) == [kind |-> "inf", neg |-> neg, m |-> <<>>, e |-> 0]
F64NaN == [kind |-> "nan", neg |-> FALSE, m |-> <<>>, e |-> 0]

\* num / den >= 2^b
AtLeastPow2(num, den, b) == MagCmp(ScaleBy(num, -b), ScaleBy(den, b)) >= 0

\* The b of lo..hi with 2^b <= num / den < 2^(b+1), by bisection.
RECURSIVE FloorLog2In(_, _, _, _)
FloorLog2In(num, den, lo, hi) ==
    IF lo >= hi THEN lo
    ELSE IF AtLeastPow2(num, den, (lo + hi + 1) \div 2)
    THEN FloorLog2In(num, den, (lo + hi + 1) \div 2, hi)
    ELSE FloorLog2In(num, den, lo, (lo + hi + 1) \div 2 - 1)

\* The b with 2^b <= num / den < 2^(b+1), for num # 0: the lengths of num and
\* den give it within a few units (log2(10) = 3.3219...).
FloorLog2(num, den) ==
    FloorLog2In(num, den,
                ((Len(num) - Len(den) - 1) * 33219) \div 10000 - 2,
                ((Len(num) - Len(den) + 1) * 33220) \div 10000 + 2)

\* The value m * 2^e, m <= 2^53: a mantissa that rounding brought to 2^53 is
\* 2^52 one exponent higher, and what lies above f64::MAX is infinite.
F64Normal(neg, m, e) ==
    IF m = F64MantEnd
    THEN IF e + 1 > F64MaxExp THEN F64Infinity(neg)
         ELSE F64Finite(neg, F64MantMin, e + 1)
    ELSE IF e > F64MaxExp THEN F64Infinity(neg)
    ELSE F64Finite(neg, m, e)

\* The quotient q of a division by d is rounded up when the rest is above
\* one half, or is one half and q is odd; twice is two times the remainder.
RoundsUp(q, twice, d) ==
    \/ MagCmp(twice, d) > 0
    \/ /\ twice = d
       /\ q # <<>>
       /\ q[Len(q)] % 2 = 1

F64Nearest(neg, qr, d, e) ==
    F64Normal(neg,
              IF RoundsUp(qr.q, MagMulDigit(qr.r, 2), d)
              THEN MagAdd(qr.q, <<1>>) ELSE qr.q,
              e)

\* The integer nearest to a / d, times 2^e.
RoundQuotient(neg, a, d, e) == F64Nearest(neg, MagDivMod(a, d), d, e)

\* The multiple of 2^e nearest to num / den.
RoundAt(neg, num, den, e) ==
    RoundQuotient(neg, ScaleBy(num, -e), ScaleBy(den, e), e)

\* The exponent of a mantissa of 53 bits, or that of the subnormals.
F64Exp(e) == IF e < F64MinExp THEN F64MinExp ELSE e

\* The f64 nearest to num / den, den # 0.  A quotient of 10^309 and more is
\* above f64::MAX, and one below 10^-324 is nearer to zero than to the least
\* subnormal.
RoundF64(neg, num, den) ==
    IF num = <<>> THEN F64Zero(neg)
    ELSE IF Len(num) - Len(den) - 1 >= 309 THEN F64Infinity(neg)
    ELSE IF Len(num) - Len(den) + 1 <= -324 THEN F64Zero(neg)
    ELSE RoundAt(neg, num, den, F64Exp(FloorLog2(num, den) - 52))

\* The digits without their trailing zeros.
StripRight(d) ==
    IF \A i \in 1..Len(d) : d[i] = 0 THEN <<>>
    ELSE SubSeq(d, 1, CHOOSE i \in 1..Len(d) :
                         d[i] # 0 /\ \A j \in (i + 1)..Len(d) : d[j] = 0)

\* str::parse::<f64>() on "digits.digits": the f64 nearest to the decimal
\* with the integer digits ip and the fraction digits fp.
MkFloat(neg, ip, fp) ==
    RoundF64(neg, Strip(ip \o fp), <<1>> \o Zeros(Len(fp)))

\* x == 0.0
FIsZero(x) == x.kind = "finite" /\ x.m = <<>>

\* -b on f64
FloatNeg(y) == IF y.kind = "nan" THEN y ELSE [y EXCEPT !.neg = ~y.neg]

\* The exact value a / b * 2^k, with its sign.
Exact(neg, a, b, k) == [neg |-> neg, a |-> a, b |-> b, k |-> k]

\* x + y for finite x and y, e being the lesser of their exponents.
ExactSum(sum, e) == Exact(sum.neg, sum.mag, <<1>>, e)
FloatSumAt(x, y, e) ==
    ExactSum(BigAdd(MkBig(x.neg, ScaleBy(x.m, x.e - e)),
                    MkBig(y.neg, ScaleBy(y.m, y.e - e))), e)

\* The exact result of an operation on two finite values other than zero.
FloatExact(op, x, y) ==
    CASE op \in {"+.", "-."} ->
            FloatSumAt(x, IF op = "-." THEN FloatNeg(y) ELSE y,
                       IF x.e <= y.e THEN x.e ELSE y.e)
      [] op = "*." -> Exact(x.neg # y.neg, MagMul(x.m, y.m), <<1>>, x.e + y.e)
      [] op = "/." -> Exact(x.neg # y.neg, x.m, y.m, x.e - y.e)

RoundExact(r) == RoundF64(r.neg, ScaleBy(r.a, r.k), ScaleBy(r.b, -r.k))

\* x + y when x or y is a zero, an infinity or NaN.
FloatAddSpecial(x, y) ==
    IF x.kind = "nan" \/ y.kind = "nan" THEN F64NaN
    ELSE IF x.kind = "inf"
    THEN IF y.kind = "inf" /\ y.neg # x.neg THEN F64NaN ELSE x
    ELSE IF y.kind = "inf" THEN y
    ELSE IF FIsZero(x) THEN (IF FIsZero(y) THEN F64Zero(x.neg /\ y.neg) ELSE y)
    ELSE x

\* The result of an operation when x or y is a zero, an infinity or NaN.
FloatSpecial(op, x, y) ==
    IF x.kind = "nan" \/ y.kind = "nan" THEN F64NaN
    ELSE CASE op \in {"+.", "-."} ->
                 FloatAddSpecial(x, IF op = "-." THEN FloatNeg(y) ELSE y)
           [] op = "*." ->
                 IF x.kind = "inf" \/ y.kind = "inf"
                 THEN IF FIsZero(x) \/ FIsZero(y) THEN F64NaN
                      ELSE F64Infinity(x.neg # y.neg)
                 ELSE F64Zero(x.neg # y.neg)
           [] op = "/." ->
                 IF x.kind = "inf"
                 THEN IF y.kind = "inf" THEN F64NaN
                      ELSE F64Infinity(x.neg # y.neg)
                 ELSE IF y.kind = "inf" THEN F64Zero(x.neg # y.neg)
                 ELSE IF FIsZero(y)
                 THEN IF FIsZero(x) THEN F64NaN ELSE F64Infinity(x.neg # y.neg)
                 ELSE F64Zero(x.neg # y.neg)

\* Finite and not zero.
IsOrdinary(x) == x.kind = "finite" /\ x.m # <<>>

(***************************************************************************)
(* The vocabulary of src/src/ast.rs.                                       *)
(***************************************************************************)
\* enum Type
TI32 == [tag |-> "I32"]
TI64 == [tag |-> "I64"]
TF64 == [tag |-> "F64"]
TBool == [tag |-> "Bool"]
TString == [tag |-> "String"]
TInferred == [tag |-> "Inferred"]
TFunction(params, return_type) ==
    [tag |-> "Function", params |-> params, return_type |-> return_type]

\* enum Expr
Integer32(v) == [tag |-> "Integer32", n |-> v]
Integer64(v) == [tag |-> "Integer64", n |-> v]
Float(v) == [tag |-> "Float", f |-> v]
Bool(v) == [tag |-> "Bool", b |-> v]
String(v) == [tag |-> "String", s |-> v]
Symbol(v) == [tag |-> "Symbol", s |-> v]
List(exprs) == [tag |-> "List", exprs |-> exprs]
If(c, t, e) ==
    [tag |-> "If", condition |-> c, then_branch |-> t, else_branch |-> e]
Let(name, type_ann, value, body) ==
    [tag |-> "Let", name |-> name, type_ann |-> type_ann, value |-> value,
     body |-> body]
Defn(name, params, return_type, body) ==
    [tag |-> "Defn", name |-> name, params |-> params,
     return_type |-> return_type, body |-> body]
Lambda(params, return_type, body) ==
    [tag |-> "Lambda", params |-> params, return_type |-> return_type,
     body |-> body]
Call(func, args) == [tag |-> "Call", func |-> func, args |-> args]

(***************************************************************************)
(* Characters and text.                                                    *)
(***************************************************************************)
Digits == {"0", "1", "2", "3", "4", "5", "6", "7", "8", "9"}
DigitVal ==
    [c \in Digits |->
        CASE c = "0" -> 0 [] c = "1" -> 1 [] c = "2" -> 2 [] c = "3" -> 3
          [] c = "4" -> 4 [] c = "5" -> 5 [] c = "6" -> 6 [] c = "7" -> 7
          [] c = "8" -> 8 [] c = "9" -> 9]
DigitChar == <<"1", "2", "3", "4", "5", "6", "7", "8", "9">>
\* The ASCII letters.
Letters ==
    {"a", "b", "c", "d", "e", "f", "g", "h", "i", "j", "k", "l", "m", "n", "o",
     "p", "q", "r", "s", "t", "u", "v", "w", "x", "y", "z",
     "A", "B", "C", "D", "E", "F", "G", "H", "I", "J", "K", "L", "M", "N", "O",
     "P", "Q", "R", "S", "T", "U", "V", "W", "X", "Y", "Z"}
\* what nom's multispace0 skips
Whitespace == {" ", "\t", "\r", "\n"}
\* char::is_whitespace: the White_Space characters of Unicode that a text of
\* the model can hold (U+0009 to U+000D, the space, U+0085, U+00A0, U+1680).
\* The others (U+2000 to U+200A, U+2028, U+2029, U+202F, U+205F, U+3000)
\* cannot be written in a string of the model.
UnicodeWhitespace ==
    Whitespace
    \cup {"", "\f", "", " ", " "}

\* The characters from U+0001 to U+00FF, but for the grave accent (U+0060),
\* which cannot be written in a string of the model.
Latin1 ==
    {"", "", "", "", "", "", "", "", "\t", "\n", "", "\f", "\r",
     "", "", "", "", "", "", "", "", "", "", "", "", "", "",
     "", "", "", "", " ", "!", "\"", "#", "$", "%", "&", "'", "(", ")",
     "*", "+", ",", "-", ".", "/", "0", "1", "2", "3", "4", "5", "6", "7",
     "8", "9", ":", ";", "<", "=", ">", "?", "@", "A", "B", "C", "D", "E",
     "F", "G", "H", "I", "J", "K", "L", "M", "N", "O", "P", "Q", "R", "S",
     "T", "U", "V", "W", "X", "Y", "Z", "[", "\\", "]", "^", "_", "a", "b",
     "c", "d", "e", "f", "g", "h", "i", "j", "k", "l", "m", "n", "o", "p",
     "q", "r", "s", "t", "u", "v", "w", "x", "y", "z", "{", "|", "}", "~",
     "", "", "", "", "", "", "", "", "", "", "", "", "", "",
     "", "", "", "", "", "", "", "", "", "", "", "", "", "",
     "", "", "", "", "", " ", "¡", "¢", "£", "¤", "¥", "¦", "§", "¨",
     "©", "ª", "«", "¬", "­", "®", "¯", "°", "±", "²", "³", "´", "µ", "¶",
     "·", "¸", "¹", "º", "»", "¼", "½", "¾", "¿", "À", "Á", "Â", "Ã", "Ä",
     "Å", "Æ", "Ç", "È", "É", "Ê", "Ë", "Ì", "Í", "Î", "Ï", "Ð", "Ñ", "Ò",
     "Ó", "Ô", "Õ", "Ö", "×", "Ø", "Ù", "Ú", "Û", "Ü", "Ý", "Þ", "ß", "à",
     "á", "â", "ã", "ä", "å", "æ", "ç", "è", "é", "ê", "ë", "ì", "í", "î",
     "ï", "ð", "ñ", "ò", "ó", "ô", "õ", "ö", "÷", "ø", "ù", "ú", "û", "ü",
     "ý", "þ", "ÿ"}
\* Letters, numbers, marks and signs of other scripts.
OtherScripts ==
    {"α", "β", "λ", "π", "Σ", "Ω", "א", "ש", "日", "語", "カ", "ƀ", "ҁ", "ڀ",
     "₀", "₁", "௰", "௧", "↉", "ↀ", "€", "→", "←", "⇒", "⊕", "⊂", "﻿"}

\* The characters the model classifies as alphabetic, numeric or neither.
\* The model says nothing of any other character: is_alphabetic, is_numeric
\* and what is built on them are not defined there.
Classified == Latin1 \cup UnicodeWhitespace \cup OtherScripts

\* char::is_alphabetic
is_alphabetic ==
    [c \in Classified |->
        c \in Letters
            \cup
            {"ª", "µ", "º", "À", "Á", "Â", "Ã", "Ä", "Å", "Æ", "Ç", "È",
             "É", "Ê", "Ë", "Ì", "Í", "Î", "Ï", "Ð", "Ñ", "Ò", "Ó", "Ô",
             "Õ", "Ö", "Ø", "Ù", "Ú", "Û", "Ü", "Ý", "Þ", "ß", "à", "á",
             "â", "ã", "ä", "å", "æ", "ç", "è", "é", "ê", "ë", "ì", "í",
             "î", "ï", "ð", "ñ", "ò", "ó", "ô", "õ", "ö", "ø", "ù", "ú",
             "û", "ü", "ý", "þ", "ÿ"}
            \cup
            {"α", "β", "λ", "π", "Σ", "Ω", "א", "ש", "日", "語", "カ", "ƀ",
             "ҁ", "ڀ", "ↀ"}]
\* char::is_numeric
is_numeric ==
    [c \in Classified |->
        c \in Digits
            \cup {"²", "³", "¹", "¼", "½", "¾"}
            \cup {"₀", "₁", "௰", "௧", "↉", "ↀ"}]
\* char::is_alphanumeric
is_alphanumeric == [c \in Classified |-> is_alphabetic[c] \/ is_numeric[c]]
\* parser/expr.rs:107: c.is_alphanumeric() || "+-*/<>=!&|_?.".contains(c)
SymbolChars ==
    [c \in Classified |->
        is_alphanumeric[c]
        \/ c \in {"+", "-", "*", "/", "<", ">", "=", "!", "&", "|", "_", "?", "."}]
\* parser/expr.rs:272: c.is_alphanumeric() || "_-".contains(c)
SymbolNameChars == [c \in Classified |-> is_alphanumeric[c] \/ c \in {"_", "-"}]

\* The character of s at position i; "" past the end of the text.
At(s, i) == IF 1 <= i /\ i <= Len(s) THEN SubSeq(s, i, i) ELSE ""
\* The remaining input from position i.
Rest(s, i) == SubSeq(s, i, Len(s))
StartsWith(s, i, t) ==
    i + Len(t) - 1 <= Len(s) /\ SubSeq(s, i, i + Len(t) - 1) = t

\* The position after the longest run of characters of set cs from i.
RECURSIVE TakeWhile(_, _, _)
TakeWhile(s, i, cs) == IF At(s, i) \in cs THEN TakeWhile(s, i + 1, cs) ELSE i

\* The first position from i on whose character does not satisfy cond, a
\* function of the classified characters (the end of take_while).
RECURSIVE TakeWhileHolds(_, _, _)
TakeWhileHolds(s, i, cond) ==
    IF i <= Len(s) /\ cond[At(s, i)] THEN TakeWhileHolds(s, i + 1, cond) ELSE i

\* nom::character::complete::multispace0: never fails.
multispace0(s, i) == TakeWhile(s, i, Whitespace)

RECURSIVE DigitsOf(_, _, _)
DigitsOf(s, i, j) ==
    IF i > j THEN <<>>
    ELSE IF i = j THEN <<DigitVal[At(s, i)]>>
    ELSE DigitsOf(s, i, (i + j) \div 2) \o DigitsOf(s, (i + j) \div 2 + 1, j)

RECURSIVE DigitsText(_)
DigitsText(d) ==
    IF d = <<>> THEN ""
    ELSE IF Len(d) = 1 THEN (IF d[1] = 0 THEN "0" ELSE DigitChar[d[1]])
    ELSE DigitsText(SubSeq(d, 1, Len(d) \div 2))
         \o DigitsText(SubSeq(d, Len(d) \div 2 + 1, Len(d)))

\* str::trim_end and str::trim: they remove the characters of
\* char::is_whitespace.
RECURSIVE TrimEnd(_)
TrimEnd(s) ==
    IF Len(s) > 0 /\ At(s, Len(s)) \in UnicodeWhitespace
    THEN TrimEnd(SubSeq(s, 1, Len(s) - 1)) ELSE s
Trim(s) == TrimEnd(Rest(s, TakeWhile(s, 1, UnicodeWhitespace)))

(***************************************************************************)
(* Display: the textual forms written by `{}`.                             *)
(***************************************************************************)
\* Display for i32 / i64
IntText(a) ==
    IF a.mag = <<>> THEN "0"
    ELSE (IF a.neg THEN "-" ELSE "") \o DigitsText(a.mag)

\* The decimal c * 10^t written without exponent, and without a fraction
\* when it is integral.
DecimalText(neg, c, t) ==
    LET d == IF t >= 0 THEN c \o Zeros(t) ELSE PadTo(c, 1 - t)
        cut == IF t >= 0 THEN Len(d) ELSE Len(d) + t
        ip == Strip(SubSeq(d, 1, cut))
        fp == StripRight(SubSeq(d, cut + 1, Len(d)))
    IN (IF neg THEN "-" ELSE "")
       \o (IF ip = <<>> THEN "0" ELSE DigitsText(ip))
       \o (IF fp = <<>> THEN "" ELSE "." \o DigitsText(fp))

\* A decimal at the distance diff from x reads back as x: it lies less than
\* half the gap to the next f64 away, or just half of it when the mantissa
\* of x is even.  The gap is ulp on the scale of diff; below a power of two
\* it is half as wide.
ReadsBack(x, diff, ulp, below) ==
    LET twice == MagMulDigit(diff, 2)
        c == MagCmp(IF below /\ x.m = F64MantMin /\ x.e > F64MinExp
                    THEN MagMulDigit(twice, 2) ELSE twice,
                    ulp)
    IN c < 0 \/ (c = 0 /\ x.m[Len(x.m)] % 2 = 0)

\* What follows the first p digits of d, and what is missing to one more in
\* the last of them.
RestAfter(d, p) == Strip(SubSeq(d, p + 1, Len(d)))
MissingAfter(d, p) == MagSub(<<1>> \o Zeros(Len(d) - p), RestAfter(d, p))

\* The first p digits of d, or one more in the last of them, read back as x.
\* d over 10^s is the exact value of x, and ulp over 10^s that of 2^(x.e).
LowReadsBack(x, d, ulp, p) == ReadsBack(x, RestAfter(d, p), ulp, TRUE)
HighReadsBack(x, d, ulp, p) == ReadsBack(x, MissingAfter(d, p), ulp, FALSE)
SomeReadsBack(x, d, ulp, p) ==
    p >= Len(d) \/ LowReadsBack(x, d, ulp, p) \/ HighReadsBack(x, d, ulp, p)

\* The least number of digits of a decimal that reads back as x.
ShortestLen(x, d, ulp) ==
    CHOOSE p \in 1..Len(d) :
        /\ SomeReadsBack(x, d, ulp, p)
        /\ p = 1 \/ ~SomeReadsBack(x, d, ulp, p - 1)

\* The decimal c * 10^t of p digits that reads back as x, the nearest to x
\* (the upper one of two equally near).
DecimalAt(x, d, ulp, s, p) ==
    IF p >= Len(d) THEN [c |-> d, t |-> -s]
    ELSE IF HighReadsBack(x, d, ulp, p)
            /\ (d[p + 1] >= 5 \/ ~LowReadsBack(x, d, ulp, p))
    THEN [c |-> MagAdd(SubSeq(d, 1, p), <<1>>), t |-> Len(d) - p - s]
    ELSE [c |-> SubSeq(d, 1, p), t |-> Len(d) - p - s]

\* The shortest decimal that reads back as x.
ShortestDecimal(x, d, ulp, s) == DecimalAt(x, d, ulp, s, ShortestLen(x, d, ulp))

TextOf(neg, dec) == DecimalText(neg, dec.c, dec.t)

\* The text of the finite x # 0, 2^(x.e) being ulp over 10^s.
FiniteText(x, ulp, s) ==
    TextOf(x.neg, ShortestDecimal(x, MagMul(x.m, ulp), ulp, s))

\* Display for f64: the shortest decimal that reads back as the value,
\* without exponent, and without a fraction when the value is integral.
FloatText(x) ==
    IF x.kind = "nan" THEN "NaN"
    ELSE IF x.kind = "inf" THEN (IF x.neg THEN "-inf" ELSE "inf")
    ELSE IF x.m = <<>> THEN (IF x.neg THEN "-0" ELSE "0")
    ELSE FiniteText(x,
                    MagPow(IF x.e >= 0 THEN 2 ELSE 5,
                           IF x.e >= 0 THEN x.e ELSE -x.e),
                    IF x.e >= 0 THEN 0 ELSE -x.e)

BoolText(b) == IF b THEN "true" ELSE "false"

(***************************************************************************)
(* The parser: src/src/parser.  A parser takes the text s and the position *)
(* i of the first unread character.  It returns                            *)
(*   [ok |-> TRUE, pos, val]            Ok((remaining, val))               *)
(*   [ok |-> FALSE, failure, err]       Err(nom::Err::Error(err)) when     *)
(*                                      failure is FALSE (alt, opt and     *)
(*                                      many0 recover from it) and         *)
(*                                      Err(nom::Err::Failure(err)) when   *)
(*                                      it is TRUE (nothing recovers).     *)
(***************************************************************************)
POk(pos, val) == [ok |-> TRUE, pos |-> pos, val |-> val]

\* enum ParseError (parser/error.rs:5): the variants this parser produces.
NomError(code) == [kind |-> "NomError", detail |-> code]
InvalidNumber(text) == [kind |-> "InvalidNumber", detail |-> text]
UnexpectedInput(text) == [kind |-> "UnexpectedInput", detail |-> text]

\* <ParseError as nom::error::ParseError>::from_error_kind, as a recoverable error
PErr(code) == [ok |-> FALSE, failure |-> FALSE, err |-> NomError(code)]
PFailure(err) == [ok |-> FALSE, failure |-> TRUE, err |-> err]

\* nom::character::complete::char
char(c, s, i) == IF At(s, i) = c THEN POk(i + 1, c) ELSE PErr("Char")
\* nom::bytes::complete::tag
tag(t, s, i) == IF StartsWith(s, i, t) THEN POk(i + Len(t), t) ELSE PErr("Tag")

\* parser/types.rs: parse_basic_type
parse_basic_type(s, i) ==
    IF StartsWith(s, i, "i32") THEN POk(i + 3, TI32)
    ELSE IF StartsWith(s, i, "i64") THEN POk(i + 3, TI64)
    ELSE IF StartsWith(s, i, "f64") THEN POk(i + 3, TF64)
    ELSE IF StartsWith(s, i, "bool") THEN POk(i + 4, TBool)
    ELSE IF StartsWith(s, i, "String") THEN POk(i + 6, TString)
    ELSE IF StartsWith(s, i, "_") THEN POk(i + 1, TInferred)
    ELSE PErr("Tag")

\* Sequencing, as nom's tuple and Rust's `?` do it: the rest F runs on the
\* success r, an error is returned as it is.
AndThen(r, F(_)) == IF r.ok THEN F(r) ELSE r
\* nom::branch::alt on two parsers: an Error lets the next parser try, Ok and
\* Failure are returned.
OrElse(r, other) == IF r.ok \/ r.failure THEN r ELSE other

RECURSIVE parse_type_annotation(_, _)
RECURSIVE parse_function_type(_, _)
RECURSIVE TypeListMore(_, _, _)

\* parser/types.rs: separated_list0(tuple((multispace0, char(','), multispace0)),
\* parse_type_annotation) after its first element: acc read so far, i after it.
TypeListMore(s, i, acc) ==
    With(char(",", s, multispace0(s, i)), LAMBDA sep :
        IF ~sep.ok THEN POk(i, acc)
        ELSE With(parse_type_annotation(s, multispace0(s, sep.pos)), LAMBDA t :
            IF ~t.ok THEN POk(i, acc)
            ELSE TypeListMore(s, t.pos, Append(acc, t.val))))

\* parser/types.rs: the separated_list0 of parse_function_type
TypeList(s, i) ==
    With(parse_type_annotation(s, i), LAMBDA first :
        IF ~first.ok THEN POk(i, <<>>)
        ELSE TypeListMore(s, first.pos, <<first.val>>))

\* parser/types.rs: parse_function_type
parse_function_type(s, i) ==
    AndThen(tag("fn", s, i), LAMBDA fn :
    AndThen(char("(", s, multispace0(s, fn.pos)), LAMBDA open :
    AndThen(TypeList(s, open.pos), LAMBDA params :
    AndThen(char(")", s, params.pos), LAMBDA close :
    AndThen(tag("->", s, multispace0(s, close.pos)), LAMBDA arrow :
    AndThen(parse_type_annotation(s, multispace0(s, arrow.pos)), LAMBDA rt :
    POk(rt.pos, TFunction(params.val, rt.val))))))))

\* parser/types.rs: parse_type_annotation
parse_type_annotation(s, i) ==
    OrElse(parse_function_type(s, i), parse_basic_type(s, i))

\* parser/expr.rs: parse_symbol_name
parse_symbol_name(s, i) ==
    LET j == TakeWhileHolds(s, i, SymbolNameChars)
    IN IF j = i THEN PErr("TakeWhile1") ELSE POk(j, SubSeq(s, i, j - 1))

\* parser/expr.rs: parse_symbol
parse_symbol(s, i) ==
    LET j == TakeWhileHolds(s, i, SymbolChars)
    IN IF j = i THEN PErr("TakeWhile1") ELSE POk(j, Symbol(SubSeq(s, i, j - 1)))

\* parser/expr.rs: parse_bool
parse_bool(s, i) ==
    IF StartsWith(s, i, "true") THEN POk(i + 4, Bool(TRUE))
    ELSE IF StartsWith(s, i, "false") THEN POk(i + 5, Bool(FALSE))
    ELSE PErr("Tag")

\* A parse_integer without the 64-bit attempt (C7).
parse_integer_Narrow(s, i) ==
    LET sign == At(s, i) = "-"
        d0 == IF sign THEN i + 1 ELSE i
        d1 == TakeWhile(s, d0, Digits)
        num == MkBig(sign, DigitsOf(s, d0, d1 - 1))
    IN IF d1 = d0 THEN PErr("Digit")
       ELSE IF InRange(num, 32) THEN POk(d1, Integer32(num))
       ELSE PFailure(InvalidNumber(SubSeq(s, i, d1 - 1)))

\* parser/expr.rs: parse_integer.  str::parse::<i32>() and ::<i64>() read an
\* optional sign and digits (leading zeros allowed) and fail when the value
\* does not fit the width.
parse_integer(s, i) ==
    LET sign == At(s, i) = "-"
        d0 == IF sign THEN i + 1 ELSE i
        d1 == TakeWhile(s, d0, Digits)
        num == MkBig(sign, DigitsOf(s, d0, d1 - 1))
    IN IF d1 = d0 THEN PErr("Digit")
       ELSE IF InRange(num, 32) THEN POk(d1, Integer32(num))
       ELSE IF InRange(num, 64) THEN POk(d1, Integer64(num))
       ELSE PFailure(InvalidNumber(SubSeq(s, i, d1 - 1)))

\* parser/expr.rs: parse_float.  str::parse::<f64>() accepts every text of
\* the shape "-?digits.digits".
parse_float(s, i) ==
    LET sign == At(s, i) = "-"
        d0 == IF sign THEN i + 1 ELSE i
        d1 == TakeWhile(s, d0, Digits)
        f1 == TakeWhile(s, d1 + 1, Digits)
    IN IF d1 = d0 THEN PErr("Digit")
       ELSE IF At(s, d1) # "." THEN PErr("Char")
       ELSE IF f1 = d1 + 1 THEN PErr("Digit")
       ELSE POk(f1, Float(MkFloat(sign, DigitsOf(s, d0, d1 - 1),
                                  DigitsOf(s, d1 + 1, f1 - 1))))

\* parser/expr.rs: parse_number
parse_number(s, i) ==
    OrElse(parse_float(s, multispace0(s, i)), parse_integer(s, multispace0(s, i)))

\* nom::bytes::complete::escaped(none_of("\"\\"), '\\', one_of("\"\\ntr"))
\* scanning from position i of a run that started at position start.
RECURSIVE escaped(_, _, _)
escaped(s, start, i) ==
    IF i > Len(s) THEN POk(i, SubSeq(s, start, i - 1))
    ELSE IF At(s, i) \notin {"\"", "\\"} THEN escaped(s, start, i + 1)
    ELSE IF At(s, i) = "\\" THEN
        IF i + 1 > Len(s) THEN PErr("Escaped")
        ELSE IF At(s, i + 1) \in {"\"", "\\", "n", "t", "r"}
             THEN escaped(s, start, i + 2)
        ELSE PErr("OneOf")
    ELSE IF i = start THEN PErr("Escaped")
    ELSE POk(i, SubSeq(s, start, i - 1))

\* parser/expr.rs: parse_string.  The content is the recognized slice: escape
\* sequences are kept as written.
parse_string(s, i) ==
    AndThen(char("\"", s, i), LAMBDA open :
    With(escaped(s, open.pos, open.pos), LAMBDA run :
    With(IF run.ok THEN run ELSE POk(open.pos, ""), LAMBDA content :
    AndThen(char("\"", s, content.pos), LAMBDA close :
    POk(close.pos, String(content.val))))))

\* parser/expr.rs: parse_atom
parse_atom(s, i) ==
    With(multispace0(s, i), LAMBDA j :
    OrElse(parse_bool(s, j),
    OrElse(parse_number(s, j),
    OrElse(parse_string(s, j),
           parse_symbol(s, j)))))

\* parser/expr.rs: parse_return_type
parse_return_type(s, i) ==
    AndThen(tag("->", s, i), LAMBDA arrow :
    parse_type_annotation(s, multispace0(s, arrow.pos)))

\* parser/expr.rs: parse_param
parse_param(s, i) ==
    AndThen(parse_symbol_name(s, multispace0(s, i)), LAMBDA name :
    AndThen(char(":", s, multispace0(s, name.pos)), LAMBDA colon :
    AndThen(parse_type_annotation(s, multispace0(s, colon.pos)), LAMBDA t :
    POk(t.pos, <<name.val, t.val>>))))

\* nom 7 multi::separated_list0(multispace0, parse_param) after an element:
\* the separator is tried first, and a separator that succeeds without
\* consuming input ends the list with ErrorKind::SeparatedList (nom's own
\* infinite loop check); when the element after a consumed separator fails the
\* list ends before that separator.
RECURSIVE ParamListMore(_, _, _)
ParamListMore(s, i, acc) ==
    With(multispace0(s, i), LAMBDA j :
        IF j = i THEN PErr("SeparatedList")
        ELSE With(parse_param(s, j), LAMBDA p :
            IF ~p.ok THEN POk(i, acc)
            ELSE ParamListMore(s, p.pos, Append(acc, p.val))))

\* parser/expr.rs: the separated_list0 of parse_params
ParamList(s, i) ==
    With(parse_param(s, i), LAMBDA first :
        IF ~first.ok THEN POk(i, <<>>)
        ELSE ParamListMore(s, first.pos, <<first.val>>))

\* parser/expr.rs: parse_params
parse_params(s, i) ==
    AndThen(char("[", s, i), LAMBDA open :
    AndThen(ParamList(s, open.pos), LAMBDA list :
    AndThen(char("]", s, list.pos), LAMBDA close :
    POk(close.pos, list.val))))

RECURSIVE parse_expr(_, _)
RECURSIVE parse_list(_, _)
RECURSIVE parse_if_expr(_, _)
RECURSIVE parse_let_expr(_, _)
RECURSIVE parse_defn_expr(_, _)
RECURSIVE parse_lambda_expr(_, _)
RECURSIVE ListRest(_, _, _)

\* parser/expr.rs: parse_expr
parse_expr(s, i) ==
    With(multispace0(s, i), LAMBDA j :
    OrElse(parse_list(s, j), parse_atom(s, j)))

\* many0(preceded(multispace0, parse_expr)): acc read so far, i after it.
ListRest(s, i, acc) ==
    With(parse_expr(s, multispace0(s, i)), LAMBDA e :
        IF e.ok THEN ListRest(s, e.pos, Append(acc, e.val))
        ELSE IF e.failure THEN e
        ELSE POk(i, acc))

\* The closing parenthesis of a form whose node is built from what was read.
Closing(s, i, node) ==
    AndThen(char(")", s, multispace0(s, i)), LAMBDA close : POk(close.pos, node))

\* parser/expr.rs: parse_if_expr
parse_if_expr(s, i) ==
    AndThen(parse_expr(s, multispace0(s, i)), LAMBDA c :
    AndThen(parse_expr(s, multispace0(s, c.pos)), LAMBDA t :
    AndThen(parse_expr(s, multispace0(s, t.pos)), LAMBDA e :
    Closing(s, e.pos, If(c.val, t.val, e.val)))))

\* parser/expr.rs:169-185, the annotation of parse_let_expr: an optional colon,
\* then an optional type; without a type the text is read on from where the
\* type was looked for.  The value is an Option.
LetAnnotation(s, i) ==
    With(multispace0(s, i), LAMBDA c :
    With(multispace0(s, IF At(s, c) = ":" THEN c + 1 ELSE c), LAMBDA a :
    With(parse_type_annotation(s, a), LAMBDA t :
        IF t.ok THEN POk(t.pos, Some(t.val)) ELSE POk(a, None))))

\* parser/expr.rs: parse_let_expr.  The function reads the name, the optional
\* annotation and the value and then requires the closing parenthesis; it
\* reads no body, so the node it builds has none.
parse_let_expr(s, i) ==
    AndThen(parse_symbol_name(s, multispace0(s, i)), LAMBDA name :
    AndThen(LetAnnotation(s, name.pos), LAMBDA type_ann :
    AndThen(parse_expr(s, multispace0(s, type_ann.pos)), LAMBDA v :
    Closing(s, v.pos, Let(name.val, type_ann.val, v.val, None)))))

\* parser/expr.rs: parse_defn_expr
parse_defn_expr(s, i) ==
    AndThen(parse_symbol_name(s, multispace0(s, i)), LAMBDA name :
    AndThen(parse_params(s, multispace0(s, name.pos)), LAMBDA params :
    AndThen(parse_return_type(s, multispace0(s, params.pos)), LAMBDA rt :
    AndThen(parse_expr(s, multispace0(s, rt.pos)), LAMBDA body :
    Closing(s, body.pos, Defn(name.val, params.val, rt.val, body.val))))))

\* opt(preceded(multispace0, parse_return_type)) of parse_lambda_expr
LambdaReturnType(s, i) ==
    With(parse_return_type(s, multispace0(s, i)), LAMBDA rt :
        IF rt.ok THEN POk(rt.pos, Some(rt.val)) ELSE POk(i, None))

\* parser/expr.rs: parse_lambda_expr
parse_lambda_expr(s, i) ==
    AndThen(parse_params(s, multispace0(s, i)), LAMBDA params :
    AndThen(LambdaReturnType(s, params.pos), LAMBDA return_type :
    AndThen(parse_expr(s, multispace0(s, return_type.pos)), LAMBDA body :
    Closing(s, body.pos, Lambda(params.val, return_type.val, body.val)))))

\* parser/expr.rs: parse_list after the first element
ListForm(s, j, first) ==
    IF ~first.ok THEN
        IF first.failure THEN first ELSE Closing(s, j, List(<<>>))
    ELSE IF first.val = Symbol("if") THEN parse_if_expr(s, first.pos)
    ELSE IF first.val = Symbol("let") THEN parse_let_expr(s, first.pos)
    ELSE IF first.val = Symbol("defn") THEN parse_defn_expr(s, first.pos)
    ELSE IF first.val \in {Symbol("fn"), Symbol("lambda")}
         THEN parse_lambda_expr(s, first.pos)
    ELSE AndThen(ListRest(s, multispace0(s, first.pos), <<>>), LAMBDA rest :
         Closing(s, rest.pos, List(<<first.val>> \o rest.val)))

\* parser/expr.rs: parse_list
parse_list(s, i) ==
    AndThen(char("(", s, multispace0(s, i)), LAMBDA open :
    With(multispace0(s, open.pos), LAMBDA j :
    ListForm(s, j, parse_expr(s, j))))

\* A parse that returns the expression it read whatever follows it: the
\* variant that C12 rules out.
parse_Lenient(text) ==
    LET r == parse_expr(text, 1)
    IN IF ~r.ok THEN [ok |-> FALSE, err |-> r.err]
       ELSE [ok |-> TRUE, expr |-> r.val]

\* parser/mod.rs: parse.  Result<Expr, ParseError> as [ok, expr] / [ok, err].
parse(text) ==
    LET r == parse_expr(text, 1)
    IN IF ~r.ok THEN [ok |-> FALSE, err |-> r.err]
       ELSE IF Trim(Rest(text, r.pos)) = "" THEN [ok |-> TRUE, expr |-> r.val]
       ELSE [ok |-> FALSE, err |-> UnexpectedInput(Rest(text, r.pos))]

(***************************************************************************)
(* Values and the value environment: src/src/env.rs.                       *)
(***************************************************************************)
\* enum Value
VInteger32(v) == [tag |-> "Integer32", n |-> v]
VInteger64(v) == [tag |-> "Integer64", n |-> v]
VFloat(v) == [tag |-> "Float", f |-> v]
VBool(v) == [tag |-> "Bool", b |-> v]
VString(v) == [tag |-> "String", s |-> v]
VFunction(params, body, captured) ==
    [tag |-> "Function", params |-> params, body |-> body, env |-> captured]
\* func names the host closure; every built-in is installed under its own name.
VBuiltinFunction(name, arity) ==
    [tag |-> "BuiltinFunction", name |-> name, arity |-> arity, func |-> name]

\* Value::type_name
type_name(v) ==
    CASE v.tag = "Integer32" -> "i32"
      [] v.tag = "Integer64" -> "i64"
      [] v.tag = "Float" -> "f64"
      [] v.tag = "Bool" -> "bool"
      [] v.tag = "String" -> "String"
      [] v.tag = "Function" -> "function"
      [] v.tag = "BuiltinFunction" -> "builtin"

\* impl Display for Value
ValueText(v) ==
    CASE v.tag \in {"Integer32", "Integer64"} -> IntText(v.n)
      [] v.tag = "Float" -> FloatText(v.f)
      [] v.tag = "Bool" -> BoolText(v.b)
      [] v.tag = "String" -> v.s
      [] v.tag = "Function" ->
            "#<function:" \o IntText(I(Len(v.params))) \o ">"
      [] v.tag = "BuiltinFunction" ->
            "#<builtin:" \o v.name \o ":" \o IntText(I(v.arity)) \o ">"

\* The names Environment::new installs, with their arities (env.rs:62-314).
BuiltinArity ==
    [nm \in {"+", "-", "*", "/", "+.", "-.", "*.", "/.", "=", "<", ">", "<=", ">=",
             "and", "or", "not", "print", "println", "type-of"} |->
        IF nm \in {"not", "print", "println", "type-of"} THEN 1 ELSE 2]

\* Environment::new
Environment_new ==
    [values |-> [nm \in DOMAIN BuiltinArity |-> VBuiltinFunction(nm, BuiltinArity[nm])],
     parent |-> None]

\* A lookup that asks the parent chain first and the local map last: the
\* variant in which an outer binding hides an inner one (C20).
RECURSIVE Environment_get_OuterFirst(_, _)
Environment_get_OuterFirst(e, name) ==
    IF e.parent # None /\ IsSome(Environment_get_OuterFirst(e.parent[1], name))
    THEN Environment_get_OuterFirst(e.parent[1], name)
    ELSE IF name \in DOMAIN e.values THEN Some(e.values[name])
    ELSE None

\* Environment::get: the local map first, then the parent chain.
RECURSIVE Environment_get(_, _)
Environment_get(e, name) ==
    IF name \in DOMAIN e.values THEN Some(e.values[name])
    ELSE IF e.parent = None THEN None
    ELSE Environment_get(e.parent[1], name)

\* A set that is lost: the variant that C13 rules out.
Environment_set_Dropped(e, name, value) == e

\* Environment::set
Environment_set(e, name, value) ==
    [e EXCEPT !.values = MapInsert(e.values, name, value)]

\* Environment::extend: a fresh frame whose parent is a clone of e.
Environment_extend(e) == [values |-> EmptyMap, parent |-> Some(e)]

(***************************************************************************)
(* The host operations of the built-ins.  A result is                      *)
(*   [ok |-> TRUE, val, out]   Ok(val), out being the text written         *)
(*   [ok |-> FALSE, err, fatal] Err(err) when fatal is FALSE, and a panic  *)
(*                              of the process when fatal is TRUE.         *)
(***************************************************************************)
BOk(val) == [ok |-> TRUE, val |-> val, out |-> <<>>]
BOut(val, text) == [ok |-> TRUE, val |-> val, out |-> <<text>>]
BErr(err) == [ok |-> FALSE, err |-> err, fatal |-> FALSE]
BPanic(err) == [ok |-> FALSE, err |-> err, fatal |-> TRUE]

MkInt(w, v) == IF w = 32 THEN VInteger32(v) ELSE VInteger64(v)

\* a + b, a - b, a * b on iW: the exact result when it fits; otherwise the
\* build decides: with overflow checks the operation panics, without them
\* the result wraps.
IntArith(op, a, b, w, oc) ==
    LET exact == CASE op = "+" -> BigAdd(a, b)
                   [] op = "-" -> BigSub(a, b)
                   [] op = "*" -> BigMul(a, b)
        what == CASE op = "+" -> "add" [] op = "-" -> "subtract"
                  [] op = "*" -> "multiply"
    IN IF InRange(exact, w) THEN BOk(MkInt(w, exact))
       ELSE IF oc THEN BPanic("attempt to " \o what \o " with overflow")
       ELSE BOk(MkInt(w, Wrap(exact, w)))

\* A division without the zero check of the source: the machine division
\* panics on a zero divisor (C6).
IntDiv_Unchecked(a, b, w) ==
    IF BigIsZero(b) THEN BPanic("attempt to divide by zero")
    ELSE IF ~InRange(BigDiv(a, b), w) THEN BPanic("attempt to divide with overflow")
    ELSE BOk(MkInt(w, BigDiv(a, b)))

\* a / b on iW (env.rs:104-126): the zero check of the source, then the
\* machine division, which panics on MIN / -1 in every build.
IntDiv(a, b, w) ==
    IF BigIsZero(b) THEN BErr("Division by zero")
    ELSE IF ~InRange(BigDiv(a, b), w) THEN BPanic("attempt to divide with overflow")
    ELSE BOk(MkInt(w, BigDiv(a, b)))

\* Operands that are integers of any two widths: the variant in which mixed
\* widths are computed with (C8).
SameWidthInts_AnyWidth(x, y) ==
    /\ x.tag \in {"Integer32", "Integer64"}
    /\ y.tag \in {"Integer32", "Integer64"}

IntWidth(v) == IF v.tag = "Integer32" THEN 32 ELSE 64
SameWidthInts(x, y) ==
    /\ x.tag \in {"Integer32", "Integer64"}
    /\ y.tag = x.tag

\* +. -. *. /. on f64 (env.rs:128-176).
FloatArith(op, x, y) ==
    IF IsOrdinary(x) /\ IsOrdinary(y) THEN RoundExact(FloatExact(op, x, y))
    ELSE FloatSpecial(op, x, y)

\* The closures installed by Environment::new, by name (env.rs:68-311).
BuiltinCall(func, args, oc) ==
    CASE func \in {"+", "-", "*"} ->
            IF SameWidthInts(args[1], args[2])
            THEN IntArith(func, args[1].n, args[2].n, IntWidth(args[1]), oc)
            ELSE BErr(func \o " requires two integers of the same type")
      [] func = "/" ->
            IF SameWidthInts(args[1], args[2])
            THEN IntDiv(args[1].n, args[2].n, IntWidth(args[1]))
            ELSE BErr("/ requires two integers of the same type")
      [] func \in {"+.", "-.", "*.", "/."} ->
            IF args[1].tag = "Float" /\ args[2].tag = "Float"
            THEN IF func = "/." /\ FIsZero(args[2].f)
                 THEN BErr("Division by zero")
                 ELSE BOk(VFloat(FloatArith(func, args[1].f, args[2].f)))
            ELSE BErr(func \o " requires two floats")
      [] func \in {"=", "<", ">", "<=", ">="} ->
            IF SameWidthInts(args[1], args[2])
            THEN LET c == BigCmp(args[1].n, args[2].n)
                 IN BOk(VBool(CASE func = "=" -> c = 0
                                [] func = "<" -> c < 0
                                [] func = ">" -> c > 0
                                [] func = "<=" -> c <= 0
                                [] func = ">=" -> c >= 0))
            ELSE BErr(func \o " requires two integers of the same type")
      [] func \in {"and", "or"} ->
            IF args[1].tag = "Bool" /\ args[2].tag = "Bool"
            THEN BOk(VBool(IF func = "and" THEN args[1].b /\ args[2].b
                                           ELSE args[1].b \/ args[2].b))
            ELSE BErr(func \o " requires two booleans")
      [] func = "not" ->
            IF args[1].tag = "Bool" THEN BOk(VBool(~args[1].b))
            ELSE BErr("not requires a boolean")
      [] func = "print" -> BOut(args[1], ValueText(args[1]))
      [] func = "println" -> BOut(args[1], ValueText(args[1]) \o "\n")
      [] func = "type-of" -> BOk(VString(type_name(args[1])))

(***************************************************************************)
(* The type checker: src/src/types.rs.                                     *)
(***************************************************************************)
\* impl Display for Type (ast.rs:54-75)
RECURSIVE TypeText(_)
RECURSIVE TypeListText(_, _)
TypeListText(ts, i) ==
    IF i > Len(ts) THEN ""
    ELSE (IF i > 1 THEN ", " ELSE "") \o TypeText(ts[i]) \o TypeListText(ts, i + 1)
TypeText(t) ==
    CASE t.tag = "I32" -> "i32"
      [] t.tag = "I64" -> "i64"
      [] t.tag = "F64" -> "f64"
      [] t.tag = "Bool" -> "bool"
      [] t.tag = "String" -> "String"
      [] t.tag = "Inferred" -> "_"
      [] t.tag = "Function" ->
            "fn(" \o TypeListText(t.params, 1) \o ") -> " \o TypeText(t.return_type)

\* TypeEnv::new (types.rs:10-94): no entry for type-of.
TypeEnv_new ==
    [types |->
        [nm \in {"+", "-", "*", "/", "+.", "-.", "*.", "/.", "=", "<", ">", "<=",
                 ">=", "and", "or", "not", "print", "println"} |->
            CASE nm \in {"+", "-", "*", "/"} ->
                    TFunction(<<TInferred, TInferred>>, TInferred)
              [] nm \in {"+.", "-.", "*.", "/."} -> TFunction(<<TF64, TF64>>, TF64)
              [] nm \in {"=", "<", ">", "<=", ">="} ->
                    TFunction(<<TInferred, TInferred>>, TBool)
              [] nm \in {"and", "or"} -> TFunction(<<TBool, TBool>>, TBool)
              [] nm = "not" -> TFunction(<<TBool>>, TBool)
              [] nm \in {"print", "println"} -> TFunction(<<TInferred>>, TInferred)]]

\* TypeEnv::get
TypeEnv_get(e, name) ==
    IF name \in DOMAIN e.types THEN Some(e.types[name]) ELSE None
\* TypeEnv::insert
TypeEnv_insert(e, name, t) == [e EXCEPT !.types = MapInsert(e.types, name, t)]
\* TypeEnv::extend: a copy of the whole map.
TypeEnv_extend(e) == [types |-> e.types]

\* types.rs: parse_type
parse_type(s) ==
    CASE s = "i32" -> [ok |-> TRUE, ty |-> TI32]
      [] s = "f64" -> [ok |-> TRUE, ty |-> TF64]
      [] s = "bool" -> [ok |-> TRUE, ty |-> TBool]
      [] s = "String" -> [ok |-> TRUE, ty |-> TString]
      [] s = "_" -> [ok |-> TRUE, ty |-> TInferred]
      [] OTHER -> [ok |-> FALSE, err |-> "Unknown type: " \o s]

\* Result<Type, String> together with the environment as the call leaves it
\* (the checker writes through &mut TypeEnv, also on the way to an error).
TOk(t, e) == [ok |-> TRUE, ty |-> t, env |-> e]
TErr(msg, e) == [ok |-> FALSE, err |-> msg, env |-> e]

\* The environment with the parameters of a defn or lambda inserted in order.
RECURSIVE InsertParams(_, _, _)
InsertParams(e, params, i) ==
    IF i > Len(params) THEN e
    ELSE InsertParams(TypeEnv_insert(e, params[i][1], params[i][2]), params, i + 1)

\* A checker that goes on in the environment the body was checked in: the
\* variant in which parameters and the body's bindings stay (C17).
OuterTypeEnv_Shared(e, b) == b.env

\* types.rs:163-169: the body is checked in new_env, a copy; env itself is as
\* it was when the body has been checked.
OuterTypeEnv(e, b) == e

ParamTypes(params) == [i \in 1..Len(params) |-> params[i][2]]
ParamNames(params) == [i \in 1..Len(params) |-> params[i][1]]

RECURSIVE type_check(_, _)
RECURSIVE CheckArgs(_, _, _, _, _, _)
RECURSIVE TypeCheckList(_, _)

\* The loop of the Call arm (types.rs:225-238) from argument i on: actual is
\* actual_return_type so far.
\* A checker that leaves the declared return type as the result whatever it
\* is: the variant in which print and the arithmetic operators yield `_` (C18).
ActualReturn_Declared(return_type, actual, arg_type) == actual

\* types.rs:234-236: if the function returns Inferred, the result is the type
\* of the argument at hand.
ActualReturn(return_type, actual, arg_type) ==
    IF return_type = TInferred THEN arg_type ELSE actual

CheckArgs(args, params, return_type, i, actual, e) ==
    IF i > Len(args) THEN TOk(actual, e)
    ELSE LET a == type_check(args[i], e)
         IN IF ~a.ok THEN a
            ELSE IF params[i] # TInferred /\ a.ty # params[i]
                 THEN TErr("Type mismatch in argument: expected "
                           \o TypeText(params[i]) \o ", got " \o TypeText(a.ty),
                           a.env)
            ELSE CheckArgs(args, params, return_type, i + 1,
                           ActualReturn(return_type, actual, a.ty), a.env)

\* types.rs:136-192, the Expr::List arm.  The binding it builds names no body.
TypeCheckList(exprs, e) ==
    IF exprs = <<>> THEN TErr("Empty list", e)
    ELSE IF exprs[1] = Symbol("if") THEN
        IF Len(exprs) # 4 THEN TErr("If requires 3 arguments", e)
        ELSE type_check(If(exprs[2], exprs[3], exprs[4]), e)
    ELSE IF exprs[1] = Symbol("let") THEN
        IF Len(exprs) < 3 THEN TErr("Let requires at least 2 arguments", e)
        ELSE IF exprs[2].tag # "Symbol"
             THEN TErr("Let binding must have a symbol name", e)
        ELSE IF Len(exprs) = 4 THEN
            IF exprs[3].tag # "Symbol" THEN TErr("Invalid type annotation", e)
            ELSE LET t == parse_type(exprs[3].s)
                 IN IF ~t.ok THEN TErr(t.err, e)
                    ELSE type_check(Let(exprs[2].s, Some(t.ty), exprs[4], None), e)
        ELSE type_check(Let(exprs[2].s, None, exprs[3], None), e)
    ELSE type_check(Call(exprs[1], Tail(exprs)), e)

\* types.rs: type_check
type_check(expr, e) ==
    CASE expr.tag = "Integer32" -> TOk(TI32, e)
      [] expr.tag = "Integer64" -> TOk(TI64, e)
      [] expr.tag = "Float" -> TOk(TF64, e)
      [] expr.tag = "Bool" -> TOk(TBool, e)
      [] expr.tag = "String" -> TOk(TString, e)
      [] expr.tag = "Symbol" ->
            LET t == TypeEnv_get(e, expr.s)
            IN IF IsSome(t) THEN TOk(t[1], e)
               ELSE TErr("Undefined variable: " \o expr.s, e)
      [] expr.tag = "If" ->
            LET c == type_check(expr.condition, e)
            IN IF ~c.ok THEN c
               ELSE IF c.ty # TBool
                    THEN TErr("If condition must be bool, got " \o TypeText(c.ty),
                              c.env)
               ELSE LET t == type_check(expr.then_branch, c.env)
                    IN IF ~t.ok THEN t
                       ELSE LET el == type_check(expr.else_branch, t.env)
                            IN IF ~el.ok THEN el
                               ELSE IF t.ty # el.ty
                                    THEN TErr("If branches must have same type: "
                                              \o TypeText(t.ty) \o " vs "
                                              \o TypeText(el.ty), el.env)
                               ELSE TOk(t.ty, el.env)
      \* types.rs:144-160: the arm binds name, type_ann and value only; it has
      \* no code for a body.
      [] expr.tag = "Let" ->
            LET v == type_check(expr.value, e)
            IN IF ~v.ok THEN v
               ELSE IF IsSome(expr.type_ann) THEN
                    LET ann == expr.type_ann[1]
                    IN IF ann # v.ty /\ ann # TInferred
                       THEN TErr("Type mismatch: expected " \o TypeText(ann)
                                 \o ", got " \o TypeText(v.ty), v.env)
                       ELSE TOk(ann, TypeEnv_insert(v.env, expr.name, ann))
               ELSE TOk(v.ty, TypeEnv_insert(v.env, expr.name, v.ty))
      [] expr.tag = "Defn" ->
            LET new_env == InsertParams(TypeEnv_extend(e), expr.params, 1)
                b == type_check(expr.body, new_env)
                outer == OuterTypeEnv(e, b)
                func_type == TFunction(ParamTypes(expr.params), expr.return_type)
            IN IF ~b.ok THEN TErr(b.err, outer)
               ELSE IF b.ty # expr.return_type /\ expr.return_type # TInferred
                    THEN TErr("Return type mismatch: expected "
                              \o TypeText(expr.return_type) \o ", got "
                              \o TypeText(b.ty), outer)
               ELSE TOk(func_type, TypeEnv_insert(outer, expr.name, func_type))
      [] expr.tag = "Lambda" ->
            LET new_env == InsertParams(TypeEnv_extend(e), expr.params, 1)
                b == type_check(expr.body, new_env)
            IN IF ~b.ok THEN TErr(b.err, e)
               ELSE IF /\ IsSome(expr.return_type)
                       /\ b.ty # expr.return_type[1]
                       /\ expr.return_type[1] # TInferred
                    THEN TErr("Lambda return type mismatch: expected "
                              \o TypeText(expr.return_type[1]) \o ", got "
                              \o TypeText(b.ty), e)
               ELSE TOk(TFunction(ParamTypes(expr.params), b.ty), e)
      [] expr.tag = "Call" ->
            LET f == type_check(expr.func, e)
            IN IF ~f.ok THEN f
               ELSE IF f.ty.tag # "Function"
                    THEN TErr("Cannot call non-function type: " \o TypeText(f.ty),
                              f.env)
               ELSE IF Len(expr.args) # Len(f.ty.params)
                    THEN TErr("Wrong number of arguments: expected "
                              \o IntText(I(Len(f.ty.params))) \o ", got "
                              \o IntText(I(Len(expr.args))), f.env)
               ELSE CheckArgs(expr.args, f.ty.params, f.ty.return_type, 1,
                              f.ty.return_type, f.env)
      [] expr.tag = "List" -> TypeCheckList(expr.exprs, e)

(***************************************************************************)
(* The evaluator: src/src/eval.rs.  A result is                            *)
(*   [ok |-> TRUE, val, env, out]        Ok(val)                           *)
(*   [ok |-> FALSE, err, env, out, fatal] Err(err) when fatal is FALSE; the*)
(*                                       process died of a panic when it   *)
(*                                       is TRUE.                          *)
(* An evaluation that nests more than MaxDepth calls of user functions is  *)
(* beyond the model: its result says so (beyond), and no step is taken on  *)
(* it.                                                                     *)
(* env is the environment the call was given, as the call leaves it (eval  *)
(* writes through &mut Environment, also on the way to an error), and out  *)
(* is the text print and println wrote, in order.                          *)
(***************************************************************************)
EOk(val, e, o) == [ok |-> TRUE, val |-> val, env |-> e, out |-> o]
EErr(msg, e, o) ==
    [ok |-> FALSE, err |-> msg, env |-> e, out |-> o, fatal |-> FALSE,
     beyond |-> FALSE]
EFatal(msg, e, o) ==
    [ok |-> FALSE, err |-> msg, env |-> e, out |-> o, fatal |-> TRUE,
     beyond |-> FALSE]
EBeyond(e, o) ==
    [ok |-> FALSE, err |-> "", env |-> e, out |-> o, fatal |-> FALSE,
     beyond |-> TRUE]

\* r with the text o written before it.
After(o, r) == [r EXCEPT !.out = o \o r.out]
\* A caller that goes on in the environment its callee ended in: the variant
\* in which the binding of a let-in form leaks (C5).
InEnv_Leaking(e, r) == r

\* The frame a call extends when the body is run over the caller's live
\* environment instead of the captured one: the variant that C15 rules out.
CalleeFrame_Dynamic(captured, caller) == Environment_extend(caller)

\* A call that never looks its callee's name up: the variant in which a
\* function defined in terms of itself cannot be called at all (C16).
CalleeName_Ignored(func) == None

\* eval.rs:88: if let Expr::Symbol(func_name) = &**func
CalleeName(func) == IF func.tag = "Symbol" THEN Some(func.s) ELSE None

\* eval.rs:85: let mut new_env = func_env.extend()
CalleeFrame(captured, caller) == Environment_extend(captured)

\* r as the result of a caller whose own environment is e.
InEnv(e, r) == [r EXCEPT !.env = e]

\* new_env with each parameter set to its argument (eval.rs:95-97).
RECURSIVE BindParams(_, _, _, _)
BindParams(e, params, args, i) ==
    IF i > Len(params) \/ i > Len(args) THEN e
    ELSE BindParams(Environment_set(e, params[i], args[i]), params, args, i + 1)

RECURSIVE eval(_, _, _, _)
RECURSIVE EvalArgs(_, _, _, _, _)
RECURSIVE EvalList(_, _, _, _)

\* An argument loop that goes on after a failure: the variant in which the
\* arguments after the failing one are evaluated all the same (C21).
RECURSIVE EvalArgs_AllEvaluated(_, _, _, _, _)
EvalArgs_AllEvaluated(args, i, e, oc, depth) ==
    IF i > Len(args) THEN EOk(<<>>, e, <<>>)
    ELSE IF ~eval(args[i], e, oc, depth).ok
         THEN [eval(args[i], e, oc, depth) EXCEPT
                 !.out = @ \o EvalArgs_AllEvaluated(args, i + 1,
                                 eval(args[i], e, oc, depth).env, oc, depth).out,
                 !.env = EvalArgs_AllEvaluated(args, i + 1, @, oc, depth).env]
    ELSE IF ~EvalArgs_AllEvaluated(args, i + 1, eval(args[i], e, oc, depth).env,
                                   oc, depth).ok
         THEN After(eval(args[i], e, oc, depth).out,
                    EvalArgs_AllEvaluated(args, i + 1,
                                          eval(args[i], e, oc, depth).env, oc, depth))
    ELSE EOk(<<eval(args[i], e, oc, depth).val>>
                 \o EvalArgs_AllEvaluated(args, i + 1,
                        eval(args[i], e, oc, depth).env, oc, depth).val,
             EvalArgs_AllEvaluated(args, i + 1,
                                   eval(args[i], e, oc, depth).env, oc, depth).env,
             eval(args[i], e, oc, depth).out
                 \o EvalArgs_AllEvaluated(args, i + 1,
                        eval(args[i], e, oc, depth).env, oc, depth).out)

\* args.iter().map(|a| eval(a, env)).collect::<Result<Vec<_>, _>>() from
\* argument i on: left to right, stopping at the first error.  val is the
\* vector of values.
EvalArgs(args, i, e, oc, depth) ==
    IF i > Len(args) THEN EOk(<<>>, e, <<>>)
    ELSE LET a == eval(args[i], e, oc, depth)
         IN IF ~a.ok THEN a
            ELSE LET rest == EvalArgs(args, i + 1, a.env, oc, depth)
                 IN IF ~rest.ok THEN After(a.out, rest)
                    ELSE EOk(<<a.val>> \o rest.val, rest.env, a.out \o rest.out)

\* A list arm that hands the whole list over as the arguments, exprs instead
\* of exprs[1..]: the variant in which the callee is its own first argument
\* (C22).
EvalList_WholeAsArgs(exprs, e, oc, depth) ==
    IF exprs = <<>> THEN EErr("Empty list", e, <<>>)
    ELSE eval(Call(exprs[1], exprs), e, oc, depth)

\* eval.rs:114-170, the Expr::List arm.
EvalList(exprs, e, oc, depth) ==
    IF exprs = <<>> THEN EErr("Empty list", e, <<>>)
    ELSE IF exprs[1] = Symbol("if") THEN
        IF Len(exprs) # 4 THEN EErr("If requires 3 arguments", e, <<>>)
        ELSE eval(If(exprs[2], exprs[3], exprs[4]), e, oc, depth)
    ELSE IF exprs[1] = Symbol("let") THEN
        IF Len(exprs) < 3 THEN EErr("Let requires at least 2 arguments", e, <<>>)
        ELSE IF exprs[2].tag # "Symbol"
             THEN EErr("Let binding must have a symbol name", e, <<>>)
        ELSE IF Len(exprs) = 4
             THEN eval(Let(exprs[2].s, None, exprs[3], Some(exprs[4])), e, oc, depth)
        ELSE IF Len(exprs) = 3
             THEN eval(Let(exprs[2].s, None, exprs[3], None), e, oc, depth)
        ELSE EErr("Invalid let expression", e, <<>>)
    ELSE eval(Call(exprs[1], Tail(exprs)), e, oc, depth)

\* eval.rs: eval.  oc: the build checks arithmetic overflow; depth: the user
\* function calls in progress.
eval(expr, e, oc, depth) ==
    CASE expr.tag = "Integer32" -> EOk(VInteger32(expr.n), e, <<>>)
      [] expr.tag = "Integer64" -> EOk(VInteger64(expr.n), e, <<>>)
      [] expr.tag = "Float" -> EOk(VFloat(expr.f), e, <<>>)
      [] expr.tag = "Bool" -> EOk(VBool(expr.b), e, <<>>)
      [] expr.tag = "String" -> EOk(VString(expr.s), e, <<>>)
      [] expr.tag = "Symbol" ->
            LET v == Environment_get(e, expr.s)
            IN IF IsSome(v) THEN EOk(v[1], e, <<>>)
               ELSE EErr("Undefined variable: " \o expr.s, e, <<>>)
      [] expr.tag = "If" ->
            LET c == eval(expr.condition, e, oc, depth)
            IN IF ~c.ok THEN c
               ELSE IF c.val = VBool(TRUE)
                    THEN After(c.out, eval(expr.then_branch, c.env, oc, depth))
               ELSE IF c.val = VBool(FALSE)
                    THEN After(c.out, eval(expr.else_branch, c.env, oc, depth))
               ELSE EErr("If condition must be a boolean", c.env, c.out)
      [] expr.tag = "Let" ->
            LET v == eval(expr.value, e, oc, depth)
            IN IF ~v.ok THEN v
               ELSE IF IsSome(expr.body) THEN
                    LET new_env == Environment_set(Environment_extend(v.env),
                                                   expr.name, v.val)
                    IN After(v.out,
                             InEnv(v.env, eval(expr.body[1], new_env, oc, depth)))
               ELSE EOk(v.val, Environment_set(v.env, expr.name, v.val), v.out)
      [] expr.tag = "Defn" ->
            LET func == VFunction(ParamNames(expr.params), expr.body, e)
            IN EOk(func, Environment_set(e, expr.name, func), <<>>)
      [] expr.tag = "Lambda" ->
            EOk(VFunction(ParamNames(expr.params), expr.body, e), e, <<>>)
      [] expr.tag = "Call" ->
            LET f == eval(expr.func, e, oc, depth)
            IN IF ~f.ok THEN f
               ELSE LET a == After(f.out, EvalArgs(expr.args, 1, f.env, oc, depth))
                    IN IF ~a.ok THEN a
                       ELSE IF f.val.tag = "Function" THEN
                            IF Len(f.val.params) # Len(a.val)
                            THEN EErr("Wrong number of arguments: expected "
                                      \o IntText(I(Len(f.val.params))) \o ", got "
                                      \o IntText(I(Len(a.val))), a.env, a.out)
                            ELSE IF depth >= MaxDepth
                                 THEN EBeyond(a.env, a.out)
                            ELSE
                            LET func_name == CalleeName(expr.func)
                                func_value ==
                                    IF IsSome(func_name)
                                    THEN Environment_get(a.env, func_name[1])
                                    ELSE None
                                ext == CalleeFrame(f.val.env, a.env)
                                named == IF IsSome(func_value)
                                         THEN Environment_set(ext, expr.func.s,
                                                              func_value[1])
                                         ELSE ext
                                new_env == BindParams(named, f.val.params, a.val, 1)
                            IN After(a.out,
                                     InEnv(a.env,
                                           eval(f.val.body, new_env, oc, depth + 1)))
                       ELSE IF f.val.tag = "BuiltinFunction" THEN
                            IF Len(a.val) # f.val.arity
                            THEN EErr("Wrong number of arguments for " \o f.val.name
                                      \o ": expected " \o IntText(I(f.val.arity))
                                      \o ", got " \o IntText(I(Len(a.val))),
                                      a.env, a.out)
                            ELSE LET r == BuiltinCall(f.val.func, a.val, oc)
                                 IN IF r.ok THEN EOk(r.val, a.env, a.out \o r.out)
                                    ELSE IF r.fatal THEN EFatal(r.err, a.env, a.out)
                                    ELSE EErr(r.err, a.env, a.out)
                       ELSE EErr("Cannot call non-function value: "
                                 \o ValueText(f.val), a.env, a.out)
      [] expr.tag = "List" -> EvalList(expr.exprs, e, oc, depth)

(***************************************************************************)
(* The driver: src/src/main.rs.                                            *)
(*   pc = "read"       main waits for a line (main.rs:25)                  *)
(*   pc = "parse"      process_input is about to parse (main.rs:60)        *)
(*   pc = "typecheck"  ... about to type-check (main.rs:62)                *)
(*   pc = "eval"       ... about to evaluate (main.rs:64)                  *)
(*   pc = "report"     main prints the value and type or the error         *)
(*                     (main.rs:38-45)                                     *)
(*   pc = "exited"     main left its loop (main.rs:29-32, 47-50)           *)
(*   pc = "crashed"    the process died in eval                            *)
(***************************************************************************)
\* impl Display for ParseError (parser/error.rs:15-27); from_error_kind
\* (parser/error.rs:52-54) makes the detail of a NomError "Parse error: <kind>".
ParseErrorText(err) ==
    CASE err.kind = "NomError" -> "Parse error: Parse error: " \o err.detail
      [] err.kind = "InvalidNumber" ->
            "Invalid number: " \o err.detail \o " is out of i64 range"
      [] err.kind = "UnexpectedInput" -> "Unexpected input: " \o err.detail

\* What process_input returns: Ok((value, ty)) or Err(message); stage names
\* the call that produced the error.
NoResult == [stage |-> "none"]
ROk(value, t) == [stage |-> "eval", ok |-> TRUE, value |-> value, ty |-> t]
RErr(stage, msg) == [stage |-> stage, ok |-> FALSE, err |-> msg]

\* The lines typed in a session of the model.
FactDefn == "(defn fact [n: i32] -> i32 (if (= n 0) 1 (* n (fact (- n 1)))))"
Lines ==
    { "(if 1 2 3)", "(if (println 1) 2 3)",
      FactDefn, "(fact 5)",
      "(let x 1 (let x 2 x))", "(let x 1 x)", "(let x 1)", "x",
      "(/ 5 0)", "(/ 2147483648 (- 2147483648 2147483648))",
      "(let f +)", "(if false (let f not) not)", "(f (print true))",
      "(not true false)", "(+ (print 1))", "(defn k [] -> i32 7)", "(k (println 2))",
      "(type-of 1)", "42", "(+ 2147483648 1)", " exit ", " ", " quit ",
      "(if false (let x true) true)", "(if x 1 2)",
      "(let b: _ true)", "(let b: bool true)", "(let b: i32 true)", "(if b 1 2)",
      "(+. 0.1 0.2)", "(/. 1.0 0.0)" }

\* The trees handed to the checker and the evaluator directly (the core's Run
\* operation: TypeCheck, then Eval, on a tree that did not come from text).
FactTree ==
    Defn("fact", <<<<"n", TI32>>>>, TI32,
         If(List(<<Symbol("="), Symbol("n"), Integer32(I(0))>>),
            Integer32(I(1)),
            List(<<Symbol("*"), Symbol("n"),
                   List(<<Symbol("fact"),
                          List(<<Symbol("-"), Symbol("n"), Integer32(I(1))>>)>>)>>)))
Trees ==
    { FactTree,
      List(<<Symbol("fact"), Integer32(I(5))>>),
      Let("x", None, Integer32(I(1)), Some(Symbol("x"))),
      Let("x", None, Integer32(I(2)), Some(Symbol("x"))),
      Let("x", None, Integer32(I(1)),
          Some(Let("x", None, Integer32(I(2)), Some(Symbol("x"))))),
      Let("x", None, Integer32(I(1)), None),
      Symbol("x"),
      Let("x", None, Integer32(I(2)), None),
      If(Bool(FALSE), Let("x", None, Bool(TRUE), None), Bool(TRUE)),
      Defn("k", <<>>, TI32, Integer32(I(7))),
      Defn("x", <<<<"a", TI32>>>>, TI32, Symbol("a")),
      List(<<Symbol("k")>>),
      Symbol("k"),
      Let("x", None, Integer32(I(1)), Some(Let("k", None, Symbol("x"), None))),
      Let("x", None, Integer32(I(1)),
          Some(Defn("k", <<>>, TI32, Integer32(I(7))))),
      Let("x", None, Integer32(I(1)), Some(Symbol("y"))) }

Init ==
    /\ pc = "read"
    /\ input = ""
    /\ ast = None
    /\ ty = None
    /\ result = NoResult
    /\ env = Environment_new
    /\ type_env = TypeEnv_new
    /\ out = <<>>
    /\ n = 0
    /\ overflow_checks \in BOOLEAN

\* main.rs:25-36: a line is read and trimmed; exit and quit leave the loop,
\* an empty line is skipped, anything else goes to process_input.
ReadLine(line) ==
    /\ pc = "read"
    /\ n < MaxInputs
    /\ LET text == Trim(line)
       IN /\ input' = text
          /\ pc' = IF text \in {"exit", "quit"} THEN "exited"
                   ELSE IF text = "" THEN "read"
                   ELSE "parse"
    /\ n' = n + 1
    /\ UNCHANGED <<ast, ty, result, env, type_env, out, overflow_checks>>

\* main.rs:25, 47-50: read_line fails (the line is not UTF-8); the error is
\* printed and the loop is left with nothing read.
ReadFailed ==
    /\ pc = "read"
    /\ n < MaxInputs
    /\ input' = ""
    /\ pc' = "exited"
    /\ n' = n + 1
    /\ UNCHANGED <<ast, ty, result, env, type_env, out, overflow_checks>>

\* main.rs:60: parser::parse(input).map_err(|e| e.to_string())?
ParseStep ==
    /\ pc = "parse"
    /\ LET r == parse(input)
       IN IF r.ok
          THEN /\ ast' = Some(r.expr)
               /\ pc' = "typecheck"
               /\ UNCHANGED result
          ELSE /\ result' = RErr("parse", ParseErrorText(r.err))
               /\ pc' = "report"
               /\ UNCHANGED ast
    /\ UNCHANGED <<input, ty, env, type_env, out, n, overflow_checks>>

\* A driver that goes on to eval whatever type_check returned: the variant
\* that C1 rules out.
AfterTypeCheck_Unchecked(ok) == "eval"

\* main.rs:62, the `?` on type_check: the position after it returned.
AfterTypeCheck(ok) == IF ok THEN "eval" ELSE "report"

\* main.rs:62: type_check(&ast, type_env)?
TypeCheckStep ==
    /\ pc = "typecheck"
    /\ LET r == type_check(ast[1], type_env)
       IN /\ type_env' = r.env
          /\ pc' = AfterTypeCheck(r.ok)
          /\ IF r.ok
             THEN ty' = Some(r.ty) /\ UNCHANGED result
             ELSE result' = RErr("typecheck", r.err) /\ UNCHANGED ty
    /\ UNCHANGED <<input, ast, env, out, n, overflow_checks>>

\* main.rs:64-66: eval(&ast, env)?; Ok((value, ty))
Evaluated(r) ==
    /\ IF r.ok THEN TRUE ELSE ~r.beyond
    /\ env' = r.env
    /\ out' = r.out
    /\ result' = IF r.ok THEN ROk(r.val, IF IsSome(ty) THEN ty[1] ELSE TInferred)
                 ELSE RErr("eval", r.err)
    /\ pc' = IF ~r.ok /\ r.fatal THEN "crashed" ELSE "report"

EvalStep ==
    /\ pc = "eval"
    /\ Evaluated(eval(ast[1], env, overflow_checks, 0))
    /\ UNCHANGED <<input, ast, ty, type_env, n, overflow_checks>>

\* main.rs:38-45: the outcome is printed and the loop starts over.
ReportStep ==
    /\ pc = "report"
    /\ pc' = "read"
    /\ input' = ""
    /\ ast' = None
    /\ ty' = None
    /\ result' = NoResult
    /\ out' = <<>>
    /\ UNCHANGED <<env, type_env, n, overflow_checks>>

\* A tree is handed to the core: process_input from main.rs:62 on.
RunTree(tree) ==
    /\ pc = "read"
    /\ n < MaxInputs
    /\ ast' = Some(tree)
    /\ pc' = "typecheck"
    /\ n' = n + 1
    /\ UNCHANGED <<input, ty, result, env, type_env, out, overflow_checks>>

\* process_input is called with a text as it is (main.rs:55-60): the text is
\* not trimmed first.
ProcessInput(text) ==
    /\ pc = "read"
    /\ n < MaxInputs
    /\ input' = text
    /\ pc' = "parse"
    /\ n' = n + 1
    /\ UNCHANGED <<ast, ty, result, env, type_env, out, overflow_checks>>

Next ==
    \/ \E line \in Lines : ReadLine(line)
    \/ ReadFailed
    \/ ParseStep
    \/ TypeCheckStep
    \/ EvalStep
    \/ ReportStep

\* The REPL session on text.
Spec == Init /\ [][Next]_vars

NextRun ==
    \/ \E tree \in Trees : RunTree(tree)
    \/ TypeCheckStep
    \/ EvalStep
    \/ ReportStep

\* The core driven with trees.
SpecRun == Init /\ [][NextRun]_vars

\* impl Display for Expr (ast.rs:77-85): the arms of the literal forms and of
\* the symbol.
ExprText(expr) ==
    CASE expr.tag \in {"Integer32", "Integer64"} -> IntText(expr.n)
      [] expr.tag = "Float" -> FloatText(expr.f)
      [] expr.tag = "Bool" -> BoolText(expr.b)
      [] expr.tag = "String" -> "\"" \o expr.s \o "\""
      [] expr.tag = "Symbol" -> expr.s

\* i32::MIN, i32::MAX, i64::MIN, i64::MAX
MinI32 == BigNeg(HalfRange(32))
MaxI32 == BigSub(HalfRange(32), I(1))
MinI64 == BigNeg(HalfRange(64))
MaxI64 == BigSub(HalfRange(64), I(1))

\* Calls of the integer built-ins on two integer literals of either width.
CalcOps == {"+", "-", "*", "/", "=", "<", ">", "<=", ">="}
CalcOperands ==
    { Integer32(I(0)), Integer32(I(-1)), Integer32(I(5)), Integer32(MinI32),
      Integer64(I(0)), Integer64(BigAdd(MaxI32, I(1))), Integer64(MinI64) }
CalcTree(op, x, y) == List(<<Symbol(op), x, y>>)

NextCalc ==
    \/ \E op \in CalcOps, x \in CalcOperands, y \in CalcOperands :
          RunTree(CalcTree(op, x, y))
    \/ TypeCheckStep
    \/ EvalStep
    \/ ReportStep

\* The core driven with calls of the integer built-ins.
SpecCalc == Init /\ [][NextCalc]_vars

\* The literal forms whose canonical text is read back.
LiteralForms ==
    { Integer32(I(0)), Integer32(I(42)), Integer32(I(-7)),
      Integer32(MaxI32), Integer32(MinI32),
      Integer64(I(5)), Integer64(BigAdd(MaxI32, I(1))),
      Integer64(BigSub(MinI32, I(1))), Integer64(MaxI64), Integer64(MinI64),
      Float(MkFloat(FALSE, <<1>>, <<5>>)), Float(MkFloat(TRUE, <<>>, <<2, 5>>)),
      Float(MkFloat(FALSE, <<1>>, <<>>)), Float(MkFloat(FALSE, <<>>, <<>>)),
      Float(MkFloat(FALSE, <<>>, <<1>>)),
      Bool(TRUE), Bool(FALSE),
      String(""), String("hi"), String("a b"), String("say \"hi\""),
      String("a\\nb") }

\* Decimal integer literals: an optional sign, leading zeros, digits.
LiteralSigns == {"", "-"}
LiteralZeros == {"", "0", "00"}
LiteralDigits ==
    { "0", "7", "42", "2147483647", "2147483648", "2147483649", "4294967296",
      "9223372036854775807", "9223372036854775808", "99999999999999999999" }
IntegerTexts ==
    { sign \o zeros \o digits :
        sign \in LiteralSigns, zeros \in LiteralZeros, digits \in LiteralDigits }

\* Decimal float literals of more digits than an f64 holds.
FloatTexts == {"0.1234567890123456789", "9007199254740993.0"}

LiteralTexts == IntegerTexts \cup FloatTexts \cup { ExprText(v) : v \in LiteralForms }

NextLiteral ==
    \/ \E text \in LiteralTexts : ReadLine(text)
    \/ ReadFailed
    \/ ParseStep
    \/ TypeCheckStep
    \/ EvalStep
    \/ ReportStep

\* The REPL session on the text of literals.
SpecLiteral == Init /\ [][NextLiteral]_vars

\* Texts made of leading whitespace, the text of one expression (with the
\* expression it stands for) and what follows it.
Leads == {"", " ", "\n\t"}
Heads ==
    { <<"42", Integer32(I(42))>>,
      <<"true", Bool(TRUE)>>,
      <<"x", Symbol("x")>>,
      <<"éλ₀", Symbol("éλ₀")>>,
      <<"\"hi\"", String("hi")>>,
      <<"()", List(<<>>)>>,
      <<"(+ 1 2)", List(<<Symbol("+"), Integer32(I(1)), Integer32(I(2))>>)>>,
      <<"(let y 1)", Let("y", None, Integer32(I(1)), None)>> }
BlankTails == {"", " ", "\t\n", " \r\n", "\f", " ", " "}
OtherTails == {" 2", ")", " )", "(+ 1 2)", " x ", "\"", "\n(", " ; c"}
Tails == BlankTails \cup OtherTails

NextParse ==
    \/ \E lead \in Leads, head \in Heads, tail \in Tails :
          ProcessInput(lead \o head[1] \o tail)
    \/ ParseStep
    \/ TypeCheckStep
    \/ EvalStep
    \/ ReportStep

\* The core called with texts that hold more than one expression.
SpecParse == Init /\ [][NextParse]_vars

\* Trees about function values.  k is made by defn and h by fn; both have the
\* body y.  The first tree makes y known to the checker only.
CallOf(f) == List(<<Symbol(f)>>)
RebindThenCall(f) ==
    List(<<Symbol("+"), Let("y", None, Integer32(I(5)), None), CallOf(f)>>)
CallInScope(f) == Let("y", None, Integer32(I(9)), Some(CallOf(f)))
\* f is the factorial, defined by defn in terms of itself; the checker
\* accepts the definition once it knows f, which the tree KnownToChecker
\* brings about without binding f to a value.  g is another name of f's value.
IdentityFn == Lambda(<<<<"n", TI32>>>>, None, Symbol("n"))
KnownToChecker == If(Bool(FALSE), Let("f", None, IdentityFn, None), IdentityFn)
DefnF == [FactTree EXCEPT !.name = "f", !.body.else_branch.exprs[3].exprs[1].s = "f"]
DirectCall(a) == List(<<Symbol("f"), Integer32(I(a))>>)
AliasCall(a) ==
    Let("g", None, Symbol("f"), Some(List(<<Symbol("g"), Integer32(I(a))>>)))
ClosureTrees ==
    { If(Bool(FALSE), Let("y", None, Integer32(I(1)), None), Integer32(I(1))),
      Let("y", None, Integer32(I(1)), None),
      Defn("k", <<>>, TI32, Symbol("y")),
      Let("h", None, Lambda(<<>>, None, Symbol("y")), None) }
    \cup { CallOf(f) : f \in {"k", "h"} }
    \cup { RebindThenCall(f) : f \in {"k", "h"} }
    \cup { CallInScope(f) : f \in {"k", "h"} }
    \cup { KnownToChecker, DefnF }
    \cup { DirectCall(a) : a \in {0, 3} }
    \cup { AliasCall(a) : a \in {0, 3} }

NextClosure ==
    \/ \E tree \in ClosureTrees : RunTree(tree)
    \/ TypeCheckStep
    \/ EvalStep
    \/ ReportStep

\* The core driven with definitions and calls of functions.
SpecClosure == Init /\ [][NextClosure]_vars

\* Trees for the checker: definitions of functions.
DefnTrees ==
    { Let("v", None, Bool(TRUE), None),
      Defn("d", <<<<"a", TI32>>>>, TI32, Symbol("a")),
      Defn("d", <<<<"a", TI32>>>>, TBool, Symbol("a")),
      Defn("d", <<<<"a", TI32>>>>, TInferred, Symbol("a")),
      Defn("d", <<<<"a", TBool>>, <<"c", TI32>>>>, TBool,
           Let("b", None, Symbol("a"), None)),
      Defn("d", <<>>, TBool, Symbol("v")),
      Defn("d", <<>>, TI32, Symbol("zz")),
      Defn("d", <<>>, TI32,
           List(<<Symbol("+"), Let("b", None, Integer32(I(1)), None), Symbol("zz")>>)),
      Defn("a", <<<<"a", TI32>>, <<"a", TBool>>>>, TBool, Symbol("a")),
      Defn("r", <<>>, TI32, List(<<Symbol("r")>>)),
      Symbol("a"), Symbol("b"), Symbol("d") }

\* Trees for the checker: applications, in both forms the checker takes them.
CallTrees ==
    { Defn("z", <<>>, TInferred, Integer32(I(1))),
      List(<<Symbol("="), Integer32(I(1)), Integer32(I(2))>>),
      List(<<Symbol("<"), Integer32(I(1)), Bool(TRUE)>>),
      List(<<Symbol("+"), Integer32(I(1)), Integer32(I(2))>>),
      List(<<Symbol("+"), Integer32(I(1)), Bool(TRUE)>>),
      List(<<Symbol("+"), Integer32(I(1))>>),
      List(<<Symbol("println"), String("hi")>>),
      List(<<Symbol("="), Let("b", None, Integer32(I(1)), None), Symbol("b")>>),
      List(<<Symbol("="), Symbol("zz"), Let("b", None, Integer32(I(1)), None)>>),
      Call(Symbol("d"), <<Integer32(I(1))>>),
      Call(Symbol("d"), <<Bool(TRUE)>>),
      Call(Symbol("d"), <<Bool(TRUE), Integer32(I(1))>>),
      Call(Symbol("d"), <<>>),
      Call(Symbol("z"), <<>>),
      Call(Symbol("v"), <<>>),
      Call(Lambda(<<<<"a", TI32>>>>, None, Symbol("a")), <<Integer32(I(5))>>),
      List(<<Symbol("+"), Integer32(I(1)), Call(Symbol("z"), <<>>)>>) }

CheckTrees == DefnTrees \cup CallTrees

NextCheck ==
    \/ \E tree \in CheckTrees : RunTree(tree)
    \/ TypeCheckStep
    \/ EvalStep
    \/ ReportStep

\* The core driven with trees that exercise the checker.
SpecCheck == Init /\ [][NextCheck]_vars

\* The number of frames below the innermost one.
RECURSIVE ScopeDepth(_)
ScopeDepth(e) == IF e.parent = None THEN 0 ELSE 1 + ScopeDepth(e.parent[1])

\* env.set(name, value) on the environment at hand (env.rs:322-324).
SetStep(name, value) ==
    /\ pc = "read"
    /\ env' = Environment_set(env, name, value)
    /\ UNCHANGED <<pc, input, ast, ty, result, type_env, out, n, overflow_checks>>

\* env.extend(): the run goes on in the child (env.rs:326-331), as eval does
\* for the body of a let-in form and of a function.
ExtendStep ==
    /\ pc = "read"
    /\ ScopeDepth(env) < MaxScopes
    /\ env' = Environment_extend(env)
    /\ UNCHANGED <<pc, input, ast, ty, result, type_env, out, n, overflow_checks>>

SetNames == {"x", "+"}
SetValues == {VInteger32(I(1)), VBool(TRUE)}

NextEnv ==
    \/ \E name \in SetNames, value \in SetValues : SetStep(name, value)
    \/ ExtendStep

\* The operations of the value environment, in any order.
SpecEnv == Init /\ [][NextEnv]_vars

\* Trees of applications whose callee and arguments write, bind and fail.
PrintLn(k) == List(<<Symbol("println"), Integer32(I(k))>>)
DivByZero == List(<<Symbol("/"), Integer32(I(1)), Integer32(I(0))>>)
ApplyTrees ==
    { Defn("t3", <<<<"a", TI32>>, <<"b", TI32>>, <<"c", TI32>>>>, TI32, PrintLn(9)),
      Call(Symbol("t3"), <<PrintLn(1), DivByZero, PrintLn(2)>>),
      Call(Symbol("t3"), <<PrintLn(1), PrintLn(2), PrintLn(3)>>),
      Call(Symbol("t3"), <<PrintLn(1), PrintLn(2), DivByZero>>),
      List(<<Symbol("+"), DivByZero, PrintLn(2)>>),
      List(<<Symbol("+"), PrintLn(1), PrintLn(2)>>),
      List(<<If(List(<<Symbol("="), DivByZero, Integer32(I(1))>>),
                Symbol("+"), Symbol("-")),
             PrintLn(1), Integer32(I(2))>>),
      Call(If(List(<<Symbol("="), PrintLn(1), Integer32(I(1))>>),
              Symbol("+"), Symbol("-")),
           <<PrintLn(2), Integer32(I(3))>>),
      List(<<Symbol("+"), Let("y", None, Integer32(I(1)), None), Symbol("y")>>),
      List(<<Symbol("+"), Let("y", None, Integer32(I(2)), None),
             List(<<Symbol("/"), Symbol("y"), Integer32(I(0))>>)>>),
      Symbol("y") }

NextApply ==
    \/ \E tree \in ApplyTrees : RunTree(tree)
    \/ TypeCheckStep
    \/ EvalStep
    \/ ReportStep

\* The core driven with trees that exercise the order of an application.
SpecApply == Init /\ [][NextApply]_vars

\* Parenthesized forms whose first element is none of if, let, defn, fn and
\* lambda, each with its elements in the order of the text.
ListForms ==
    { <<"(+ 1 2)", <<Symbol("+"), Integer32(I(1)), Integer32(I(2))>>>>,
      <<"( + 1 ( * 2 3 ) )",
        <<Symbol("+"), Integer32(I(1)),
          List(<<Symbol("*"), Integer32(I(2)), Integer32(I(3))>>)>>>>,
      <<"(1 2)", <<Integer32(I(1)), Integer32(I(2))>>>>,
      <<"(ifx true 1 2)",
        <<Symbol("ifx"), Bool(TRUE), Integer32(I(1)), Integer32(I(2))>>>>,
      <<"(x)", <<Symbol("x")>>>>,
      <<"(println \"hi\")", <<Symbol("println"), String("hi")>>>>,
      <<"((fn [] 5))", <<Lambda(<<>>, None, Integer32(I(5)))>>>>,
      <<"(+ 1 (let w 2))",
        <<Symbol("+"), Integer32(I(1)), Let("w", None, Integer32(I(2)), None)>>>>,
      <<"(+ 1)", <<Symbol("+"), Integer32(I(1))>>>>,
      <<"(/ 1 0)", <<Symbol("/"), Integer32(I(1)), Integer32(I(0))>>>>,
      <<"(w 1)", <<Symbol("w"), Integer32(I(1))>>>>,
      <<"(- w 1)", <<Symbol("-"), Symbol("w"), Integer32(I(1))>>>>,
      <<"(x 4)", <<Symbol("x"), Integer32(I(4))>>>> }

\* Texts that bind the names the lists above apply, and the empty list.
ListSetup == { "(let w 3)", "(let x (fn [] 5))", "()" }

ListLines == { form[1] : form \in ListForms } \cup ListSetup

NextList ==
    \/ \E text \in ListLines : ProcessInput(text)
    \/ ParseStep
    \/ TypeCheckStep
    \/ EvalStep
    \/ ReportStep

\* process_input given texts of generic lists.
SpecList == Init /\ [][NextList]_vars

\* Inputs of a session that bind names in a branch not taken, in a value
\* that fails, and in an argument before one that fails.
SessionLines ==
    { "(let x 1)", "(if false (let x true) true)", "x",
      "(let z (/ 1 0))", "(+ (let q 1) zz)", "(+ (let y 2) (/ y 0))",
      "(+ 1 2)", "(defn d [a: bool] -> _ 7)" }

SessionTrees ==
    { Defn("d", <<<<"a", TBool>>>>, TInferred, Integer32(I(7))),
      Call(Symbol("d"), <<Bool(TRUE)>>) }

NextSession ==
    \/ \E line \in SessionLines : ReadLine(line)
    \/ ReadFailed
    \/ ParseStep
    \/ \E tree \in SessionTrees : RunTree(tree)
    \/ TypeCheckStep
    \/ EvalStep
    \/ ReportStep

\* A session of inputs run through the pipeline with one root type
\* environment and one root value environment.
SpecSession == Init /\ [][NextSession]_vars

(***************************************************************************)
(* Properties of the session on text (Spec).                               *)
(***************************************************************************)
\* C1: for every input, in every session state, the driver runs Parse, then
\* TypeCheck, then Eval, in that order; Eval is never started for an input
\* whose type check failed, and for such an input the value environment is
\* unchanged and print and println have written nothing.
C1_TypeCheckPrecedesEval ==
    [][ /\ (pc' = "parse" => pc = "read")
        /\ (pc' = "typecheck" => pc = "parse" /\ parse(input).ok)
        /\ (pc' = "eval" => pc = "typecheck" /\ type_check(ast[1], type_env).ok)
        /\ (pc = "typecheck" /\ ~type_check(ast[1], type_env).ok
              => pc' = "report" /\ env' = env /\ out = <<>> /\ out' = <<>>)
        /\ (pc # "eval" => env' = env)
        /\ (pc \notin {"eval", "report"} => out' = out)
      ]_vars

\* C1's case: (if (println 1) 2 3) was rejected by the checker; nothing was
\* printed and the root environment is the initial one.
C1_Witness ==
    /\ pc = "report"
    /\ input = "(if (println 1) 2 3)"
    /\ result = RErr("typecheck", "If condition must be bool, got i32")
    /\ out = <<>>
    /\ n = 1
    /\ env = Environment_new

\* C2: in a fresh session the definition of fact succeeds through Parse,
\* TypeCheck and Eval, and a following (fact 5) evaluates to the 32-bit
\* integer 120.
C2_FactDefinedAndApplied ==
    /\ (pc = "report" /\ n = 1 /\ input = FactDefn => result.ok)
    /\ (pc = "report" /\ input = "(fact 5)" /\ IsSome(Environment_get(env, "fact"))
          => result = ROk(VInteger32(I(120)), TI32))

\* The message of either arity check of eval (eval.rs:75-80, 102-107).
IsArityError(msg) == StartsWith(msg, 1, "Wrong number of arguments")

\* C3: in every session state, a call with an argument count different from
\* the callee's arity fails before any side effect of an argument expression
\* is observed: when the input is reported as an arity error, print and
\* println have written nothing.
C3_WrongArityBeforeArguments ==
    (pc = "report" /\ ~result.ok /\ IsArityError(result.err)) => out = <<>>

\* C4: the text (let x 1 (let x 2 x)), parsed and run, evaluates to the
\* 32-bit integer 2.
C4_InnerLetShadows ==
    (pc = "report" /\ input = "(let x 1 (let x 2 x))")
        => (result.ok /\ result.value = VInteger32(I(2)))

\* C10: every built-in of the root value environment is bound in the root type
\* environment to a function type with as many parameters as the built-in's
\* arity, so that (type-of 1) passes the type check and is evaluated.
C10_BuiltinsTyped ==
    /\ n = 0 =>
          \A name \in DOMAIN env.values :
             /\ IsSome(TypeEnv_get(type_env, name))
             /\ TypeEnv_get(type_env, name)[1].tag = "Function"
             /\ Len(TypeEnv_get(type_env, name)[1].params) = env.values[name].arity
    /\ (pc = "report" /\ input = "(type-of 1)") => result.ok

\* process_input (main.rs:55-67) given the text of a later input in the
\* environments the session has now: it returns the value v.
LaterInputGives(text, v) ==
    LET p == parse(text)
    IN /\ p.ok
       /\ type_check(p.expr, type_env).ok
       /\ LET r == eval(p.expr, env, overflow_checks, 0)
          IN r.ok /\ r.val = v

\* C5: the input (let x 1 x) is evaluated at top level, and when it has been,
\* a following top-level input x resolves x to the 32-bit integer 1.
C5_LetInThenReference ==
    (pc = "report" /\ input = "(let x 1 x)")
        => /\ result.ok
           /\ LaterInputGives("x", VInteger32(I(1)))

(***************************************************************************)
(* Properties of the integer built-ins (SpecCalc).                         *)
(***************************************************************************)
IntegerTags == {"Integer32", "Integer64"}
\* (/ a 0) with both operands of the same width
IsZeroDivision(tree) ==
    /\ tree.tag = "List"
    /\ Len(tree.exprs) = 3
    /\ tree.exprs[1] = Symbol("/")
    /\ tree.exprs[2].tag \in IntegerTags
    /\ tree.exprs[3].tag = tree.exprs[2].tag
    /\ tree.exprs[3].n = I(0)

\* C6: for every integer a, (/ a 0) with both operands of the same width
\* returns the error "Division by zero", never a panic and never a value, and
\* the session goes on to its next input with the root environment as it was.
C6_DivisionByZero ==
    [][ /\ (pc = "eval" /\ IsZeroDivision(ast[1])
              => /\ result' = RErr("eval", "Division by zero")
                 /\ pc' = "report"
                 /\ env' = env)
        /\ (pc = "report" /\ IsZeroDivision(ast[1])
              => pc' = "read" /\ env' = env)
      ]_vars

\* C6's case: i64::MIN was divided by the 64-bit zero, and the session has
\* inputs left.
C6_Witness ==
    /\ pc = "report"
    /\ ast = Some(CalcTree("/", Integer64(MinI64), Integer64(I(0))))
    /\ result = RErr("eval", "Division by zero")
    /\ n < MaxInputs

\* C8: + - * / and = < > <= >= on two integers return a result only for
\* operands of the same width (arithmetic keeps the width, a comparison
\* gives a boolean); on a 32-bit and a 64-bit integer, in either order, the
\* call passes the type check and fails in the built-in with an error.
C8_SameWidthOnly ==
    (pc = "report" /\ ast[1].tag = "List" /\ ast[1].exprs[1].s \in CalcOps)
        => LET op == ast[1].exprs[1].s
               x == ast[1].exprs[2]
               y == ast[1].exprs[3]
           IN IF x.tag # y.tag
              THEN result = RErr("eval", op \o " requires two integers of the same type")
              ELSE result.ok =>
                     result.value.tag =
                        IF op \in {"+", "-", "*", "/"} THEN x.tag ELSE "Bool"

\* C8's case: a 64-bit and a 32-bit integer were added.
C8_Witness ==
    /\ pc = "report"
    /\ ast = Some(CalcTree("+", Integer64(BigAdd(MaxI32, I(1))), Integer32(I(5))))
    /\ result = RErr("eval", "+ requires two integers of the same type")
    /\ IsSome(ty)

(***************************************************************************)
(* Properties of literals (SpecLiteral).                                   *)
(***************************************************************************)
\* The literals of LiteralDigits whose value lies in the range of i32 and of
\* i64: up to 2147483647 and 9223372036854775807, and one more below zero.
FitsI32(sign, digits) ==
    \/ digits \in {"0", "7", "42", "2147483647"}
    \/ sign = "-" /\ digits = "2147483648"
FitsI64(sign, digits) ==
    \/ digits \in {"0", "7", "42", "2147483647", "2147483648", "2147483649",
                   "4294967296", "9223372036854775807"}
    \/ sign = "-" /\ digits = "9223372036854775808"

\* C7: a decimal integer literal (an optional -, then digits) parses to the
\* 32-bit integer node of its value when the value lies in the range of i32,
\* otherwise to the 64-bit integer node when it lies in the range of i64,
\* and otherwise the parse fails with InvalidNumber.
C7_IntegerLiteralWidth ==
    \A sign \in LiteralSigns, zeros \in LiteralZeros, digits \in LiteralDigits :
        (input = sign \o zeros \o digits /\ pc \in {"typecheck", "eval", "report"})
            => LET value == MkBig(sign = "-", DigitsOf(digits, 1, Len(digits)))
               IN IF FitsI32(sign, digits) THEN ast = Some(Integer32(value))
                  ELSE IF FitsI64(sign, digits) THEN ast = Some(Integer64(value))
                  ELSE /\ ast = None
                       /\ pc = "report"
                       /\ result = RErr("parse", "Invalid number: " \o input
                                                 \o " is out of i64 range")

\* C7's case: 2147483648, one more than i32::MAX, was parsed.
C7_Witness ==
    /\ pc = "typecheck"
    /\ input = "2147483648"
    /\ ast = Some(Integer64([neg |-> FALSE, mag |-> <<2, 1, 4, 7, 4, 8, 3, 6, 4, 8>>]))

\* C9: for every literal form v, the text of v, parsed and evaluated, gives
\* the value of v, of the same variant.
C9_LiteralRoundTrip ==
    \A v \in LiteralForms :
        (pc = "report" /\ input = ExprText(v))
            => (result.ok /\ result.value = eval(v, env, overflow_checks, 0).val)

(***************************************************************************)
(* Soundness of the checker with respect to the evaluator (Spec).          *)
(***************************************************************************)
\* A type that is, or holds, the placeholder.
RECURSIVE MentionsInferred(_)
MentionsInferred(t) ==
    \/ t.tag = "Inferred"
    \/ /\ t.tag = "Function"
       /\ \/ MentionsInferred(t.return_type)
          \/ \E i \in 1..Len(t.params) : MentionsInferred(t.params[i])

\* The placeholder takes part in the checking of expr under e: a symbol of
\* expr has a type that mentions it, or an annotation, a parameter type or a
\* return type of expr does.
RECURSIVE PlaceholderTakesPart(_, _)
PlaceholderTakesPart(expr, e) ==
    CASE expr.tag = "Symbol" ->
            /\ IsSome(TypeEnv_get(e, expr.s))
            /\ MentionsInferred(TypeEnv_get(e, expr.s)[1])
      [] expr.tag = "If" ->
            \/ PlaceholderTakesPart(expr.condition, e)
            \/ PlaceholderTakesPart(expr.then_branch, e)
            \/ PlaceholderTakesPart(expr.else_branch, e)
      [] expr.tag = "Let" ->
            \/ IsSome(expr.type_ann) /\ MentionsInferred(expr.type_ann[1])
            \/ PlaceholderTakesPart(expr.value, e)
            \/ IsSome(expr.body) /\ PlaceholderTakesPart(expr.body[1], e)
      [] expr.tag = "Defn" ->
            \/ MentionsInferred(expr.return_type)
            \/ \E i \in 1..Len(expr.params) : MentionsInferred(expr.params[i][2])
            \/ PlaceholderTakesPart(expr.body, e)
      [] expr.tag = "Lambda" ->
            \/ IsSome(expr.return_type) /\ MentionsInferred(expr.return_type[1])
            \/ \E i \in 1..Len(expr.params) : MentionsInferred(expr.params[i][2])
            \/ PlaceholderTakesPart(expr.body, e)
      [] expr.tag = "Call" ->
            \/ PlaceholderTakesPart(expr.func, e)
            \/ \E i \in 1..Len(expr.args) : PlaceholderTakesPart(expr.args[i], e)
      [] expr.tag = "List" ->
            \E i \in 1..Len(expr.exprs) : PlaceholderTakesPart(expr.exprs[i], e)
      [] OTHER -> FALSE

\* The messages of the errors the checker is to exclude: an undefined symbol,
\* a non-boolean condition, an arity mismatch, a call of a non-function, a
\* built-in applied to values of the wrong variants.
IsCheckableError(msg) ==
    \/ StartsWith(msg, 1, "Undefined variable: ")
    \/ msg = "If condition must be a boolean"
    \/ IsArityError(msg)
    \/ StartsWith(msg, 1, "Cannot call non-function value: ")
    \/ \E i \in 1..Len(msg) : StartsWith(msg, i, " requires ")

\* C11: in every session, an input that passed the type check without the
\* placeholder taking part in its checking does not fail in the evaluator
\* with an undefined symbol, a non-boolean condition, an arity mismatch, a
\* call of a non-function or a built-in applied to mismatched variants.
C11_CheckedInputsEvaluate ==
    (/\ pc = "report"
     /\ IsSome(ast)
     /\ IsSome(ty)
     /\ ~PlaceholderTakesPart(ast[1], type_env))
        => (result.ok \/ ~IsCheckableError(result.err))

(***************************************************************************)
(* Properties of the parser's entry point (SpecParse).                     *)
(***************************************************************************)
\* C12: parse returns an expression only if the whole input is consumed up
\* to surrounding whitespace: a text made of whitespace, one expression and
\* a tail of whitespace gives that expression; when the tail holds anything
\* else, parse gives no expression and the error UnexpectedInput that carries
\* the tail.
C12_WholeInputConsumed ==
    \A lead \in Leads, head \in Heads, tail \in Tails :
        (input = lead \o head[1] \o tail /\ pc \in {"typecheck", "eval", "report"})
            => IF tail \in BlankTails
               THEN ast = Some(head[2]) /\ result.stage # "parse"
               ELSE /\ ast = None
                    /\ pc = "report"
                    /\ result = RErr("parse", "Unexpected input: " \o tail)

\* C12's case: 42 was read and " 2" was left.
C12_Witness ==
    /\ pc = "report"
    /\ input = "42 2"
    /\ ast = None
    /\ result = RErr("parse", "Unexpected input:  2")

(***************************************************************************)
(* Properties of the root environment (SpecRun).                           *)
(***************************************************************************)
\* The names the trees of the session bind.
Names == {"x", "k"}

\* Evaluated in an environment, tree may run a binding without body, or a
\* defn, of nm in that very environment.
RECURSIVE BindsHere(_, _)
BindsHere(tree, nm) ==
    CASE tree.tag = "Let" ->
            \/ tree.body = None /\ tree.name = nm
            \/ BindsHere(tree.value, nm)
      [] tree.tag = "Defn" -> tree.name = nm
      [] tree.tag = "If" ->
            \/ BindsHere(tree.condition, nm)
            \/ BindsHere(tree.then_branch, nm)
            \/ BindsHere(tree.else_branch, nm)
      [] tree.tag = "Call" ->
            \/ BindsHere(tree.func, nm)
            \/ \E i \in 1..Len(tree.args) : BindsHere(tree.args[i], nm)
      [] tree.tag = "List" ->
            \E i \in 1..Len(tree.exprs) : BindsHere(tree.exprs[i], nm)
      [] OTHER -> FALSE

\* C13: when a top-level binding without body, or a defn, of n has been
\* evaluated successfully, the root environment binds n to the value the form
\* returned; the root binding of a name changes only when an input that holds
\* a binding without body or a defn of that name is evaluated; and an input
\* that is a reference to a name bound in the root passes the type check and
\* evaluates to the root's value.
C13_SequentialBindingPersists ==
    [][ /\ (/\ pc = "eval"
            /\ ast[1].tag \in {"Let", "Defn"}
            /\ (ast[1].tag = "Let" => ast[1].body = None)
            /\ result'.ok)
              => /\ Environment_get(env', ast[1].name) = Some(result'.value)
                 /\ env'.parent = None
        /\ \A nm \in Names :
              /\ (Environment_get(env', nm) # Environment_get(env, nm))
                    => (pc = "eval" /\ BindsHere(ast[1], nm))
              /\ (ast = Some(Symbol(nm)) /\ IsSome(Environment_get(env, nm)))
                    => /\ pc = "typecheck" => pc' = "eval"
                       /\ pc = "eval" =>
                             result' = ROk(Environment_get(env, nm)[1], ty[1])
      ]_vars

\* C13's case: x was bound to 1 by the first input, and the third input, a
\* reference to x, evaluated to 1.
C13_Witness ==
    /\ pc = "report"
    /\ n = 3
    /\ ast = Some(Symbol("x"))
    /\ result.ok
    /\ result.value = VInteger32(I(1))

\* C14: evaluating a binding with a body, whose value expression binds
\* nothing, leaves the environment it is evaluated in exactly as it was: the
\* bound name and the bindings made in the body are gone when the form
\* returns, with a value or with an error.
C14_LetInLeavesEnvironment ==
    [][ (/\ pc = "eval"
         /\ ast[1].tag = "Let"
         /\ IsSome(ast[1].body)
         /\ \A nm \in Names : ~BindsHere(ast[1].value, nm))
            => env' = env
      ]_vars

\* C14's case: in a fresh session the body of a binding of x bound k to x; the
\* form returned 1 and the root binds neither x nor k.
C14_Witness ==
    /\ pc = "report"
    /\ n = 1
    /\ ast = Some(Let("x", None, Integer32(I(1)),
                      Some(Let("k", None, Symbol("x"), None))))
    /\ result.ok
    /\ result.value = VInteger32(I(1))
    /\ Environment_get(env, "x") = None
    /\ Environment_get(env, "k") = None

(***************************************************************************)
(* Properties of function values (SpecClosure).                            *)
(***************************************************************************)
\* C15: a function value made by defn or fn holds the environment of its
\* definition as it was then, and a call resolves the free name y of the body
\* in that environment: to the value y had at the definition, whatever the
\* root binds y to afterwards and whatever the caller's scope binds it to,
\* and to nothing (the error "Undefined variable: y") when y was first bound
\* after the definition.
C15_ClosureCapturesDefinition ==
    [][ /\ (pc = "eval" /\ ast[1].tag = "Defn" /\ result'.ok)
              => result'.value =
                    VFunction(ParamNames(ast[1].params), ast[1].body, env)
        /\ (pc = "eval" /\ ast[1].tag = "Let" /\ ast[1].value.tag = "Lambda")
              => result' = ROk(VFunction(<<>>, ast[1].value.body, env), ty[1])
        /\ \A f \in {"k", "h"} :
              (/\ pc = "eval"
               /\ ast[1] \in {CallOf(f), RebindThenCall(f), CallInScope(f)}
               /\ IsSome(Environment_get(env, f)))
                  => LET y == Environment_get(Environment_get(env, f)[1].env, "y")
                     IN IF y = None
                        THEN result' = RErr("eval", "Undefined variable: y")
                        ELSE /\ result'.ok
                             /\ result'.value =
                                   IF ast[1] = RebindThenCall(f)
                                   THEN VInteger32(BigAdd(I(5), y[1].n))
                                   ELSE y[1]
      ]_vars

\* C15's case: y was bound to 1, k was defined, and the third input rebound
\* y to 5 before it called k: the call gave 1, the sum is 6.
C15_Witness ==
    /\ pc = "report"
    /\ ast = Some(RebindThenCall("k"))
    /\ Environment_get(env, "y") = Some(VInteger32(I(5)))
    /\ result.ok
    /\ result.value = VInteger32(I(6))

\* C16: when f, defined in terms of itself, has been defined once (the
\* environment its value holds does not bind f), a call through another name
\* g of the value fails with "Undefined variable: f" as soon as it reaches
\* the call of f in the body, and returns normally when it does not reach
\* it, whereas the call through the symbol f itself succeeds.
C16_SelfReferenceThroughNameOnly ==
    [][ (/\ pc = "eval"
         /\ IsSome(Environment_get(env, "f"))
         /\ Environment_get(Environment_get(env, "f")[1].env, "f") = None)
            => /\ ast[1] = AliasCall(3)
                    => result' = RErr("eval", "Undefined variable: f")
               /\ ast[1] = AliasCall(0) => result' = ROk(VInteger32(I(1)), ty[1])
               /\ ast[1] = DirectCall(3) => result' = ROk(VInteger32(I(6)), ty[1])
               /\ ast[1] = DirectCall(0) => result' = ROk(VInteger32(I(1)), ty[1])
      ]_vars

\* C16's case: f was defined once and then called with 3 through g.
C16_Witness ==
    /\ pc = "report"
    /\ n = 3
    /\ ast = Some(AliasCall(3))
    /\ Environment_get(env, "f") # None
    /\ Environment_get(Environment_get(env, "f")[1].env, "f") = None
    /\ result = RErr("eval", "Undefined variable: f")

(***************************************************************************)
(* Properties of the checker (SpecCheck).                                  *)
(***************************************************************************)
\* The map m with name bound to t.
Bound(m, name, t) ==
    [nm \in DOMAIN m \cup {name} |-> IF nm = name THEN t ELSE m[nm]]

\* The map m with each parameter bound to its type, a later parameter of the
\* same name taking the place of an earlier one.
WithParams(m, params) ==
    [nm \in DOMAIN m \cup {params[i][1] : i \in 1..Len(params)} |->
        IF \E i \in 1..Len(params) : params[i][1] = nm
        THEN params[CHOOSE i \in 1..Len(params) :
                       /\ params[i][1] = nm
                       /\ \A j \in (i + 1)..Len(params) : params[j][1] # nm][2]
        ELSE m[nm]]

\* C17: the check of a defn succeeds exactly when its body checks under the
\* current bindings plus the parameters and the declared return type is the
\* placeholder or the body's type.  On success the type is the function type
\* of the parameter types and the declared return type, and the current
\* environment is what it was plus the function's name bound to that type:
\* no parameter and no binding of the body is in it.  On failure the
\* environment is what it was.
C17_DefnCheck ==
    [][ (pc = "typecheck" /\ ast[1].tag = "Defn")
            => LET d == ast[1]
                   b == type_check(d.body, [types |-> WithParams(type_env.types, d.params)])
                   t == TFunction([i \in 1..Len(d.params) |-> d.params[i][2]],
                                  d.return_type)
               IN IF b.ok /\ (d.return_type = TInferred \/ d.return_type = b.ty)
                  THEN /\ pc' = "eval"
                       /\ ty' = Some(t)
                       /\ type_env' = [types |-> Bound(type_env.types, d.name, t)]
                  ELSE /\ pc' = "report"
                       /\ result'.stage = "typecheck"
                       /\ type_env' = type_env
      ]_vars

\* C17's case: d was defined with the parameters a and c and a body that
\* binds b; the environment binds d to fn(bool, i32) -> bool and none of a, b, c.
C17_Witness ==
    /\ pc = "eval"
    /\ n = 1
    /\ ast[1].tag = "Defn"
    /\ ast[1].body = Let("b", None, Symbol("a"), None)
    /\ TypeEnv_get(type_env, "d") = Some(TFunction(<<TBool, TI32>>, TBool))
    /\ TypeEnv_get(type_env, "a") = None
    /\ TypeEnv_get(type_env, "b") = None
    /\ TypeEnv_get(type_env, "c") = None

\* The callee and the arguments of an application, in either form.
IsApplication(tree) ==
    \/ tree.tag = "Call"
    \/ /\ tree.tag = "List"
       /\ tree.exprs # <<>>
       /\ tree.exprs[1] \notin {Symbol("if"), Symbol("let")}

Callee(tree) == IF tree.tag = "Call" THEN tree.func ELSE tree.exprs[1]

Arguments(tree) == IF tree.tag = "Call" THEN tree.args ELSE Tail(tree.exprs)

\* The check of the i-th argument: it comes after the callee's and those of
\* the arguments before it, made in order in one environment.
RECURSIVE ArgCheck(_, _, _)
ArgCheck(tree, i, e) ==
    type_check(Arguments(tree)[i],
               IF i = 1 THEN type_check(Callee(tree), e).env
               ELSE ArgCheck(tree, i - 1, e).env)

\* The application passes: the callee has a function type, there are as many
\* arguments as parameters, and each argument checks and has the type of its
\* parameter unless that is the placeholder.
ApplicationPasses(tree, e) ==
    LET f == type_check(Callee(tree), e)
        args == Arguments(tree)
    IN /\ f.ok
       /\ f.ty.tag = "Function"
       /\ Len(args) = Len(f.ty.params)
       /\ \A i \in 1..Len(args) :
              /\ ArgCheck(tree, i, e).ok
              /\ \/ f.ty.params[i] = TInferred
                 \/ f.ty.params[i] = ArgCheck(tree, i, e).ty

\* C18, as amended: an application passes the check exactly under the
\* conditions above, and its type is the callee's declared return type,
\* except that when the declared return type is the placeholder the type is
\* that of the last argument (the placeholder itself when there is none).
C18_ApplicationCheck ==
    [][ (pc = "typecheck" /\ IsApplication(ast[1]))
            => IF ApplicationPasses(ast[1], type_env)
               THEN LET f == type_check(Callee(ast[1]), type_env)
                        args == Arguments(ast[1])
                    IN /\ pc' = "eval"
                       /\ ty' = Some(IF f.ty.return_type # TInferred \/ args = <<>>
                                     THEN f.ty.return_type
                                     ELSE ArgCheck(ast[1], Len(args), type_env).ty)
               ELSE /\ pc' = "report"
                    /\ result'.stage = "typecheck"
      ]_vars

\* C18's cases: a comparison of two i32 has the type bool, and a sum whose
\* last argument is a bool has the type bool.
C18_Witness ==
    /\ pc = "eval"
    /\ \/ /\ ast[1] = List(<<Symbol("="), Integer32(I(1)), Integer32(I(2))>>)
          /\ ty = Some(TBool)
       \/ /\ ast[1] = List(<<Symbol("+"), Integer32(I(1)), Bool(TRUE)>>)
          /\ ty = Some(TBool)

\* C18 as the specification states it: the type of an application that
\* passes is the type of an argument whose parameter is the placeholder when
\* there is such a parameter, and the declared return type otherwise.
C18_PlaceholderParameterPropagates ==
    [][ (pc = "typecheck" /\ IsApplication(ast[1])
            /\ ApplicationPasses(ast[1], type_env))
            => LET f == type_check(Callee(ast[1]), type_env)
                   open == {i \in 1..Len(f.ty.params) : f.ty.params[i] = TInferred}
               IN IF open # {}
                  THEN \E i \in open : ty' = Some(ArgCheck(ast[1], i, type_env).ty)
                  ELSE ty' = Some(f.ty.return_type)
      ]_vars

\* C19: the check of a binding succeeds exactly when its value checks and the
\* annotation is absent, is the placeholder, or is the value's type; on
\* success the current type environment maps the name to the value's type,
\* also when the annotation is the placeholder.
C19_LetBindsValueType ==
    [][ (pc = "typecheck" /\ ast[1].tag = "Let")
            => LET v == type_check(ast[1].value, type_env)
                   ann == ast[1].type_ann
               IN IF v.ok /\ (ann = None \/ ann = Some(TInferred) \/ ann = Some(v.ty))
                  THEN /\ pc' = "eval"
                       /\ TypeEnv_get(type_env', ast[1].name) = Some(v.ty)
                  ELSE /\ pc' = "report"
                       /\ result'.stage = "typecheck"
      ]_vars

(***************************************************************************)
(* Properties of the value environment (SpecEnv).                          *)
(***************************************************************************)
\* The local maps of a chain, the innermost first.
RECURSIVE Frames(_)
Frames(e) ==
    IF e.parent = None THEN <<e.values>> ELSE <<e.values>> \o Frames(e.parent[1])

\* The binding of name in the innermost frame that binds it.
InnermostBinding(e, name) ==
    LET fs == Frames(e)
        has == {i \in 1..Len(fs) : name \in DOMAIN fs[i]}
    IN IF has = {} THEN None
       ELSE Some(fs[CHOOSE i \in has : \A j \in has : i <= j][name])

LookedUp == SetNames \cup {"q", "-", "println"}

\* C20: after any sequence of extend and set, get(n) is the binding of n in
\* the innermost frame of the chain that binds n, or nothing when no frame
\* binds it; and a set on a child changes nothing of what get returns on the
\* environment the child was extended from.
C20_ScopedLookup ==
    /\ [](\A name \in LookedUp :
              Environment_get(env, name) = InnermostBinding(env, name))
    /\ [][ (env.parent # None /\ ScopeDepth(env') = ScopeDepth(env))
              => \A name \in LookedUp :
                    Environment_get(env'.parent[1], name)
                        = Environment_get(env.parent[1], name)
         ]_vars

\* C20's case: x is 1 at the root and true in a child of it, and + is
\* the built-in at the root and 1 in the child: the child's bindings are the
\* ones found from the child, the root's from the root, and q is found nowhere.
C20_Witness ==
    /\ ScopeDepth(env) = 2
    /\ Environment_get(env, "x") = Some(VBool(TRUE))
    /\ Environment_get(env, "+") = Some(VInteger32(I(1)))
    /\ "x" \in DOMAIN env.parent[1].values
    /\ Environment_get(env.parent[1], "x") = Some(VInteger32(I(1)))
    /\ Environment_get(env.parent[1].parent[1], "+") = Some(VBuiltinFunction("+", 2))
    /\ Environment_get(env.parent[1].parent[1], "x") = None
    /\ Environment_get(env, "q") = None

(***************************************************************************)
(* Properties of the evaluation of an application (SpecApply).             *)
(***************************************************************************)
\* The evaluation of the i-th argument: it comes after the callee's and
\* those of the arguments before it, made in order in one environment.
RECURSIVE ArgEval(_, _, _, _)
ArgEval(tree, i, e, oc) ==
    eval(Arguments(tree)[i],
         IF i = 1 THEN eval(Callee(tree), e, oc, 0).env
         ELSE ArgEval(tree, i - 1, e, oc).env,
         oc, 0)

\* What the callee and the arguments 1..k wrote, in that order.
RECURSIVE WrittenUpTo(_, _, _, _)
WrittenUpTo(tree, k, e, oc) ==
    IF k = 0 THEN eval(Callee(tree), e, oc, 0).out
    ELSE WrittenUpTo(tree, k - 1, e, oc) \o ArgEval(tree, k, e, oc).out

\* C21: an application evaluates its callee, then its arguments from left to
\* right, each in the environment the one before left.  When the callee
\* fails the outcome is its error and nothing but what it wrote is written;
\* when an argument fails, the outcome is the error of the first one that
\* does, what is written is what the callee and the arguments up to that one
\* wrote, and the environment is the one that argument left: no later
\* argument, no body and no host operation has run.  When none fails, what
\* they wrote comes first, in order, and the caller's environment is the one
\* the last argument left.
C21_ApplicationOrder ==
    [][ (pc = "eval" /\ IsApplication(ast[1]))
            => LET tree == ast[1]
                   c == eval(Callee(tree), env, overflow_checks, 0)
                   nargs == Len(Arguments(tree))
                   failing == {i \in 1..nargs :
                                  ~ArgEval(tree, i, env, overflow_checks).ok}
               IN IF ~c.ok
                  THEN /\ result' = RErr("eval", c.err)
                       /\ out' = c.out
                       /\ env' = c.env
                  ELSE IF failing # {}
                  THEN LET k == CHOOSE i \in failing : \A j \in failing : i <= j
                       IN /\ result' = RErr("eval",
                                  ArgEval(tree, k, env, overflow_checks).err)
                          /\ out' = WrittenUpTo(tree, k, env, overflow_checks)
                          /\ env' = ArgEval(tree, k, env, overflow_checks).env
                  ELSE LET w == WrittenUpTo(tree, nargs, env, overflow_checks)
                       IN /\ Len(out') >= Len(w)
                          /\ SubSeq(out', 1, Len(w)) = w
                          /\ env' = IF nargs = 0 THEN c.env
                                    ELSE ArgEval(tree, nargs, env, overflow_checks).env
      ]_vars

\* C21's case: t3 was applied to three arguments of which the first writes
\* 1, the second divides by zero and the third writes 2: only 1 was written,
\* and the error is the division's.
C21_Witness ==
    /\ pc = "report"
    /\ ast = Some(Call(Symbol("t3"), <<PrintLn(1), DivByZero, PrintLn(2)>>))
    /\ result = RErr("eval", "Division by zero")
    /\ out = <<"1\n">>

(***************************************************************************)
(* Properties of the generic list (SpecList).                              *)
(***************************************************************************)
\* A text of the menu that is being parsed becomes the list of its elements.
ParsesToList ==
    \A form \in ListForms :
        input = form[1] => ast' = Some(List(form[2])) /\ pc' = "typecheck"

\* The checker gives for the list at hand what it gives for the application
\* of the first element to the others, and leaves the type environment as
\* that does.
CheckedAsApplication ==
    LET r == type_check(Call(Head(ast[1].exprs), Tail(ast[1].exprs)), type_env)
    IN /\ type_env' = r.env
       /\ IF r.ok THEN pc' = "eval" /\ ty' = Some(r.ty)
          ELSE pc' = "report" /\ result' = RErr("typecheck", r.err)

\* The evaluator gives for the list at hand what it gives for the
\* application of the first element to the others, writes what that writes
\* and leaves the environment as that does.
EvaluatedAsApplication ==
    LET r == eval(Call(Head(ast[1].exprs), Tail(ast[1].exprs)),
                  env, overflow_checks, 0)
    IN /\ env' = r.env
       /\ out' = r.out
       /\ IF r.ok THEN result'.ok /\ result'.value = r.val
          ELSE result' = RErr("eval", r.err)

\* The tree at hand is a non-empty generic list.
NonEmptyList == IsSome(ast) /\ ast[1].tag = "List" /\ ast[1].exprs # <<>>

\* C22: a parenthesized form whose first element is none of if, let, defn,
\* fn and lambda parses to the generic list of its elements in the order of
\* the text, and the checker and the evaluator treat every non-empty generic
\* list as the application of its first element to the others: same result
\* or error, same environments, same text written.
C22_ListIsApplication ==
    [][ /\ pc = "parse" => ParsesToList
        /\ (pc = "typecheck" /\ NonEmptyList) => CheckedAsApplication
        /\ (pc = "eval" /\ NonEmptyList) => EvaluatedAsApplication
      ]_vars

\* C22's cases: the text (+ 1 2) became the list of +, 1 and 2 and gave 3,
\* and the text (w 1) became the list of w and 1 and was rejected as the
\* application of w, an i32.
C22_Witness ==
    /\ pc = "report"
    /\ \/ /\ input = "(+ 1 2)"
          /\ ast = Some(List(<<Symbol("+"), Integer32(I(1)), Integer32(I(2))>>))
          /\ result = ROk(VInteger32(I(3)), TI32)
       \/ /\ input = "(w 1)"
          /\ ast = Some(List(<<Symbol("w"), Integer32(I(1))>>))
          /\ result = RErr("typecheck", "Cannot call non-function type: i32")

(***************************************************************************)
(* Properties of the two session environments (SpecSession).               *)
(***************************************************************************)
\* C23: between inputs, every name bound in the root type environment is
\* bound in the root value environment.
C23_TypedNamesHaveValues ==
    pc = "read"
        => \A name \in DOMAIN type_env.types : Environment_get(env, name) # None

\* C24: an input rejected by the checker leaves the type environment as it
\* was, and an input rejected by the evaluator leaves the value environment
\* and the type environment as they were before the input.
C24_RejectedInputChangesNothing ==
    [][ /\ (pc = "typecheck" /\ pc' = "report") => type_env' = type_env
        /\ (pc = "eval" /\ ~result'.ok) => env' = env
      ]_vars

\* The runtime variant of a base type.
VariantOf(t) ==
    CASE t = TI32 -> "Integer32"
      [] t = TI64 -> "Integer64"
      [] t = TF64 -> "Float"
      [] t = TBool -> "Bool"
      [] t = TString -> "String"

\* C25: when the pipeline succeeds and reports a base type, the value is of
\* the runtime variant of that type.
C25_ReportedTypeFitsValue ==
    (pc = "report" /\ result.stage = "eval" /\ result.ok
        /\ result.ty \in {TI32, TI64, TF64, TBool, TString})
        => result.value.tag = VariantOf(result.ty)

(***************************************************************************)
(* Totality of the integer built-ins (SpecCalc).                           *)
(***************************************************************************)
\* C26: + - * / applied to two integers of the same width never abort the
\* session: the call ends in an error value or in a value of that width
\* that fits its range.
C26_IntegerBuiltinsTotal ==
    (/\ IsSome(ast)
     /\ ast[1].tag = "List"
     /\ ast[1].exprs[1].s \in {"+", "-", "*", "/"}
     /\ ast[1].exprs[2].tag = ast[1].exprs[3].tag)
        => /\ pc # "crashed"
           /\ (pc = "report" /\ result.ok)
                 => /\ result.value.tag = ast[1].exprs[2].tag
                    /\ InRange(result.value.n,
                               IF ast[1].exprs[2].tag = "Integer32" THEN 32 ELSE 64)

====
